---- MODULE Spec2Model ----
(***************************************************************************)
(* Model of the capture-persist pipeline of CCM (storage.py, gui.py,       *)
(* models.py, analyzer.py).  Strings are sequences of code points, so that *)
(* strip(),                                                                *)
(* lower(), slicing and the comparison of sheet titles are computed as     *)
(* Python computes them.  A workbook is a sequence of sheets, a sheet is a *)
(* title and a sequence of rows, files are records with an "exists" flag.  *)
(***************************************************************************)
EXTENDS Integers, Sequences, FiniteSets, TLC

VARIABLES
    wb,             \* storage.wb: [none, sheets]
    archivo_excel,  \* storage.archivo_excel: "" (None / empty) or a path
    disk,           \* the workbook file at the registered path: [exists, sheets]
    walFile,        \* <path>.wal.jsonl: [exists, lines]
    markFile,       \* <path>.wal.jsonl.commit exists
    hashseed,       \* the string-hash seed of the running Python process
    pc,             \* position of the program: "lib", "boot", "running", "stopped", "detect", "detected", "save"
    startupOps,     \* what the application's startup code has executed in this process run
    last,           \* the last call of guardar_tramos or recover_from_wal, if it was the last operation
    brut,           \* detect_all: the raw records the page extractor returned
    lista,          \* detect_all: the list it returns
    captura_lock,   \* gui.captura_lock: the set of threads holding it (empty when unlocked)
    hilos,          \* the scheduler thread and the instant-capture threads: [pc, queued]
    guardado,       \* one call of safe_save_workbook, statement by statement, and its files
    config,         \* the globals of config.py: [modo_247, hora_ini, hora_fin, intervalo_captura]
    ahora,          \* the clock: what datetime.now() returned last, in seconds since day 0, 00:00:00
    siguiente_captura   \* gui.siguiente_captura: NoneDt or a datetime

vars == <<wb, archivo_excel, disk, walFile, markFile, hashseed, pc, startupOps, last, brut, lista,
          captura_lock, hilos, guardado, config, ahora, siguiente_captura>>

\* the variables of the detector
detectorVars == <<brut, lista>>

\* the variables of the capture threads
hilosVars == <<captura_lock, hilos>>

\* the variable of the statement-by-statement save
guardadoVars == <<guardado>>

\* the variables of the schedule
horarioVars == <<config, ahora, siguiente_captura>>

\* the variables the storage module and the application's startup and stop do not touch
fueraDeStorage == <<detectorVars, hilosVars, guardadoVars, horarioVars>>

(***************************************************************************)
(* Bounds                                                                  *)
(***************************************************************************)
MaxDias == 1       \* the clock runs over the days 0..MaxDias
MaxBatch == 2      \* records in one batch handed to guardar_tramos
MaxLog == 1        \* records in one batch of a logged transaction
MaxRows == 2       \* data rows a workbook may hold before guardar_tramos stops being called
MaxHilos == 2      \* instant-capture threads started in one run of the program
MaxIntentos == 3   \* the largest value of safe_save_workbook's parameter intentos

\* the hash seeds a process may start with
Seeds == {0, 1}

(***************************************************************************)
(* Program constants                                                       *)
(***************************************************************************)
Intentos == 5          \* safe_save_workbook(intentos=5)
TitleBase == 27        \* base[:27]
TitleMax == 31         \* (base + suf)[:31]
HashMod == 1000        \* abs(hash(..)) % 1000

Min(a, b) == IF a < b THEN a ELSE b

(***************************************************************************)
(* Strings                                                                 *)
(***************************************************************************)
inus_name == <<84,114,225,102,105,99,111,32,105,110,117,115,117,97,108>>  \* "Tráfico inusual"
desc_name == <<68,101,115,99,111,110,111,99,105,100,111,115>>             \* "Desconocidos"

\* the segment names of the inputs
Nombre ==
    [ ZAve |-> <<90,45,65,118,101>>,    \* "Z-Ave"
      aBlvd |-> <<97,45,66,108,118,100>>,    \* "a-Blvd"
      MainSt |-> <<77,97,105,110,32,83,116>>,    \* "Main St"
      CtrlName |-> <<120,1>>,    \* "x\x01": a control character openpyxl refuses in a cell
      NameA |-> <<65>>,    \* "A"
      NameB |-> <<66>>,    \* "B"
      NamePipes |-> <<65,124,124,52,32,107,109>>,    \* "A||4 km": a route name holding the key's separator
      Vacio |-> <<>>,    \* ""
      SoloProhibidos |-> <<58, 92, 47, 42, 63, 91, 93>>,    \* ":\/*?[]"
      Largo |-> [k \in 1..30 |-> 120] \o <<91, 121>>,    \* 30 "x", "[", "y"
      LargoBarras |-> [k \in 1..32 |-> 47],    \* 32 "/"
      CorteDosPuntos |-> [k \in 1..26 |-> 120] \o <<58, 63>>,    \* 26 "x", ":", "?"
      Comillas |-> <<97, 34, 92, 98>>,    \* a"\b
      a |-> <<97>>,    \* "a"
      aPipesb |-> <<97, 124, 124, 98>> ]    \* "a||b"

\* str.isspace for the code points below 256
IsSpace(c) == c \in {9, 10, 11, 12, 13, 28, 29, 30, 31, 32, 133, 160}

RECURSIVE LStrip(_)
LStrip(s) == IF s = <<>> THEN s
             ELSE IF IsSpace(Head(s)) THEN LStrip(Tail(s)) ELSE s

RECURSIVE RStrip(_)
RStrip(s) == IF s = <<>> THEN s
             ELSE IF IsSpace(s[Len(s)]) THEN RStrip(SubSeq(s, 1, Len(s) - 1)) ELSE s

\* str.strip()
Strip(s) == RStrip(LStrip(s))

\* str.lower() on one code point (ASCII and Latin-1 capitals)
LowerChar(c) == IF (c >= 65 /\ c <= 90) \/ (c >= 192 /\ c <= 222 /\ c # 215) THEN c + 32 ELSE c

\* str.lower()
Lower(s) == [k \in 1..Len(s) |-> LowerChar(s[k])]

\* Python's str comparison a < b (lexicographic on code points)
RECURSIVE StrLess(_, _)
StrLess(a, b) ==
    IF b = <<>> THEN FALSE
    ELSE IF a = <<>> THEN TRUE
    ELSE IF Head(a) < Head(b) THEN TRUE
    ELSE IF Head(a) > Head(b) THEN FALSE
    ELSE StrLess(Tail(a), Tail(b))

\* str.replace(c, r) for a one-character c
RECURSIVE ReplaceChar(_, _, _)
ReplaceChar(s, c, r) ==
    IF s = <<>> THEN <<>>
    ELSE (IF Head(s) = c THEN r ELSE <<Head(s)>>) \o ReplaceChar(Tail(s), c, r)

\* s[:n]
Prefix(s, n) == SubSeq(s, 1, Min(n, Len(s)))

\* the characters of _sheet_forbidden  : \ / * ? [ ]
SheetForbidden == {58, 92, 47, 42, 63, 91, 93}

\* a substitution that leaves the string as it is
SubForbiddenNada(s) == s

\* re.sub(_sheet_forbidden, " ", base)
SubForbidden(s) == [k \in 1..Len(s) |-> IF s[k] \in SheetForbidden THEN 32 ELSE s[k]]

RECURSIVE CodeSum(_, _)
CodeSum(s, k) == IF s = <<>> THEN 0 ELSE k * Head(s) + CodeSum(Tail(s), k + 1)

\* abs(hash(s)) % 1000: Python salts str hashes with a per-process seed
\* (hash("") is 0 under every seed); the mixing function stands for SipHash
PyHash(seed, s) ==
    IF s = <<>> THEN 0
    ELSE (CodeSum(s, 1) * (2 * seed + 3) + 389 * seed + Len(s)) % HashMod

\* a title without suffix
SufVacio(h) == <<>>

\* f"_{h:03d}"
Suf(h) == <<95, 48 + (h \div 100), 48 + ((h \div 10) % 10), 48 + (h % 10)>>

nombre_hoja_seguro(nombre_original, seed) ==
    LET b0 == Strip(nombre_original)
        b1 == ReplaceChar(ReplaceChar(b0, 58, <<32, 45>>), 47, <<32, 47>>)
        b2 == SubForbidden(b1)
        base == Prefix(b2, TitleBase)
    IN  Prefix(base \o Suf(PyHash(seed, nombre_original)), TitleMax)

(***************************************************************************)
(* Sheets                                                                  *)
(***************************************************************************)
HeaderRow == [kind |-> "header", nombre |-> <<>>, seg |-> 0]

DataRow(nombre, seg) == [kind |-> "data", nombre |-> nombre, seg |-> seg]

\* wb.create_sheet: a new sheet without rows
NewSheet(title) == [title |-> title, rows |-> <<>>]

\* wb.sheetnames
sheetnames(sheets) == [k \in 1..Len(sheets) |-> sheets[k].title]

HasSheet(sheets, title) == \E k \in 1..Len(sheets) : sheets[k].title = title

\* wb[title]
SheetIndex(sheets, title) == CHOOSE k \in 1..Len(sheets) : sheets[k].title = title

_poner_encabezados(ws) ==
    IF ws.rows = <<>> THEN [ws EXCEPT !.rows = <<HeaderRow>>] ELSE ws

EnsureHeader(sheets, title) ==
    [sheets EXCEPT ![SheetIndex(sheets, title)] = _poner_encabezados(@)]

\* ws.append(row) on the first sheet, whatever the title
AppendRowFirst(sheets, title, row) ==
    [sheets EXCEPT ![1].rows = Append(@, row)]

\* ws.append(row) on wb[title]
AppendRow(sheets, title, row) ==
    [sheets EXCEPT ![SheetIndex(sheets, title)].rows = Append(@, row)]

\* [s for s in seq if s not in (inus_name, desc_name)]
RECURSIVE WatchOnly(_)
WatchOnly(titles) ==
    IF titles = <<>> THEN <<>>
    ELSE (IF Head(titles) \in {inus_name, desc_name} THEN <<>> ELSE <<Head(titles)>>)
         \o WatchOnly(Tail(titles))

\* the sort key of list.sort(key=lambda x: x.lower()); the mutant compares the titles themselves
SortKeyCaseSensitive(title) == title

SortKey(title) == Lower(title)

\* insertion of x behind every element whose key is not greater (list.sort is stable)
RECURSIVE InsertSorted(_, _)
InsertSorted(sorted, x) ==
    IF sorted = <<>> THEN <<x>>
    ELSE IF StrLess(SortKey(x), SortKey(Head(sorted))) THEN <<x>> \o sorted
    ELSE <<Head(sorted)>> \o InsertSorted(Tail(sorted), x)

RECURSIVE SortTitles(_)
SortTitles(titles) ==
    IF titles = <<>> THEN <<>>
    ELSE InsertSorted(SortTitles(SubSeq(titles, 1, Len(titles) - 1)), titles[Len(titles)])

\* list.index(x)
ListIndex(seq, x) == CHOOSE k \in 1..Len(seq) : seq[k] = x /\ \A j \in 1..(k - 1) : seq[j] # x

\* [s for s in current if s is not ws]
RECURSIVE WithoutTitle(_, _)
WithoutTitle(sheets, title) ==
    IF sheets = <<>> THEN <<>>
    ELSE (IF Head(sheets).title = title THEN <<>> ELSE <<Head(sheets)>>)
         \o WithoutTitle(Tail(sheets), title)

\* list.insert(index0, x) with a 0-based index; an index past the end appends
ListInsert(seq, index0, x) ==
    LET k == Min(index0, Len(seq))
    IN  SubSeq(seq, 1, k) \o <<x>> \o SubSeq(seq, k + 1, Len(seq))

\* a reordering that keeps "Tráfico inusual" and the per-segment sheets only
OrdenarSinDesconocidos(sheets0) ==
    LET sheets == IF HasSheet(sheets0, inus_name) THEN sheets0
                  ELSE <<_poner_encabezados(NewSheet(inus_name))>> \o sheets0
        new_order == <<inus_name>> \o SortTitles(WatchOnly(sheetnames(sheets)))
    IN  [k \in 1..Len(new_order) |-> sheets[SheetIndex(sheets, new_order[k])]]

_ordenar_hojas_watchlist(sheets0) ==
    LET sheets == IF HasSheet(sheets0, inus_name) THEN sheets0
                  ELSE <<_poner_encabezados(NewSheet(inus_name))>> \o sheets0
        watchlist_sheets == SortTitles(WatchOnly(sheetnames(sheets)))
        new_order == <<inus_name>> \o watchlist_sheets
                     \o (IF HasSheet(sheets, desc_name) THEN <<desc_name>> ELSE <<>>)
    IN  [k \in 1..Len(new_order) |-> sheets[SheetIndex(sheets, new_order[k])]]

\* called by guardar_tramos only, after "Tráfico inusual" was ensured and
\* when title is not a sheet yet
_insertar_hoja_watchlist_en_posicion(sheets, title) ==
    LET existing == SortTitles(Append(WatchOnly(sheetnames(sheets)), title))
        target_index == 1 + (ListIndex(existing, title) - 1)
        ws == _poner_encabezados(NewSheet(title))
        c1 == ListInsert(sheets, target_index, ws)
        c2 == IF HasSheet(sheets, desc_name)
              THEN WithoutTitle(c1, desc_name) \o <<sheets[SheetIndex(sheets, desc_name)]>>
              ELSE c1
        c3 == <<c2[SheetIndex(c2, inus_name)]>> \o WithoutTitle(c2, inus_name)
    IN  c3

(***************************************************************************)
(* Records (TramoNorm / dict) and batches                                  *)
(***************************************************************************)
Tramo(nombre, es_usual, seg) == [nombre |-> nombre, es_usual |-> es_usual, tiempo_seg |-> seg]

\* es_usual is "True" (watchlist), "False" (unusual) or "None" (no hint)
Tramos == { Tramo(Nombre.ZAve, "True", 720), Tramo(Nombre.aBlvd, "True", 300),
            Tramo(Nombre.MainSt, "False", 60), Tramo(Nombre.aBlvd, "None", 300),
            Tramo(Nombre.CtrlName, "False", 60) }

RECURSIVE SeqsUpTo(_, _)
SeqsUpTo(S, n) ==
    IF n = 0 THEN { <<>> }
    ELSE LET shorter == SeqsUpTo(S, n - 1)
         IN  shorter \cup { Append(q, x) : q \in shorter, x \in S }

Batches == SeqsUpTo(Tramos, MaxBatch)

\* the records of the transactions that go through the write-ahead log
TxTramos == { Tramo(Nombre.ZAve, "True", 720), Tramo(Nombre.MainSt, "False", 60), Tramo(Nombre.CtrlName, "None", 60) }

TxBatches == SeqsUpTo(TxTramos, MaxLog)

\* openpyxl's ILLEGAL_CHARACTERS_RE: a cell value holding one raises IllegalCharacterError
IsIllegalChar(c) == (c >= 0 /\ c <= 8) \/ c = 11 \/ c = 12 \/ (c >= 14 /\ c <= 31)

HasIllegal(s) == \E k \in 1..Len(s) : IsIllegalChar(s[k])

RECURSIVE CountData(_)
CountData(rows) ==
    IF rows = <<>> THEN 0
    ELSE (IF Head(rows).kind = "data" THEN 1 ELSE 0) + CountData(Tail(rows))

RECURSIVE DataRows(_)
DataRows(sheets) ==
    IF sheets = <<>> THEN 0 ELSE CountData(Head(sheets).rows) + DataRows(Tail(sheets))

(***************************************************************************)
(* guardar_tramos                                                          *)
(***************************************************************************)
\* one iteration of "for t in (tramos or [])"; a row that raises inside
\* ws.append is skipped (except ...: continue), a sheet created for it stays
GuardarUno(acc, t, seed) ==
    LET nombre == Strip(t.nombre)
        row == DataRow(nombre, t.tiempo_seg)
        raises == HasIllegal(nombre)
    IN  IF t.es_usual = "True" THEN
            LET hoja == nombre_hoja_seguro(nombre, seed)
                s1 == IF HasSheet(acc.sheets, hoja) THEN acc.sheets
                      ELSE _insertar_hoja_watchlist_en_posicion(acc.sheets, hoja)
                s2 == EnsureHeader(s1, hoja)
            IN  IF raises THEN [acc EXCEPT !.sheets = s2]
                ELSE [sheets |-> AppendRow(s2, hoja, row), guardados |-> acc.guardados + 1,
                      u |-> acc.u + 1, i |-> acc.i]
        ELSE IF t.es_usual = "False" THEN
            IF raises THEN acc
            ELSE [sheets |-> AppendRow(acc.sheets, inus_name, row),
                  guardados |-> acc.guardados + 1, u |-> acc.u, i |-> acc.i + 1]
        ELSE
            LET s1 == IF HasSheet(acc.sheets, desc_name) THEN acc.sheets
                      ELSE Append(acc.sheets, _poner_encabezados(NewSheet(desc_name)))
            IN  IF raises THEN [acc EXCEPT !.sheets = s1]
                ELSE [sheets |-> AppendRow(s1, desc_name, row),
                      guardados |-> acc.guardados + 1, u |-> acc.u, i |-> acc.i]

\* a loop that gives up at the first record whose row raises
RECURSIVE GuardarLoopAborta(_, _, _)
GuardarLoopAborta(acc, tramos, seed) ==
    IF tramos = <<>> THEN acc
    ELSE IF HasIllegal(Strip(Head(tramos).nombre)) THEN acc
    ELSE GuardarLoopAborta(GuardarUno(acc, Head(tramos), seed), Tail(tramos), seed)

RECURSIVE GuardarLoop(_, _, _)
GuardarLoop(acc, tramos, seed) ==
    IF tramos = <<>> THEN acc
    ELSE GuardarLoop(GuardarUno(acc, Head(tramos), seed), Tail(tramos), seed)

\* the in-memory part of guardar_tramos: base sheets, the loop, the reordering
GuardarSheets(sheets0, tramos, seed) ==
    LET s1 == IF HasSheet(sheets0, inus_name) THEN sheets0
              ELSE <<NewSheet(inus_name)>> \o sheets0
        s2 == EnsureHeader(s1, inus_name)
        s3 == IF HasSheet(s2, desc_name) THEN EnsureHeader(s2, desc_name) ELSE s2
        acc == GuardarLoop([sheets |-> s3, guardados |-> 0, u |-> 0, i |-> 0], tramos, seed)
    IN  [acc EXCEPT !.sheets = _ordenar_hojas_watchlist(acc.sheets)]

\* safe_save_workbook when the first `fails` calls of atomic_save_workbook raise
safe_save_workbook(intentos, fails) ==
    IF intentos <= 0 THEN [saved |-> FALSE, raised |-> FALSE]
    ELSE IF fails < intentos THEN [saved |-> TRUE, raised |-> FALSE]
    ELSE [saved |-> FALSE, raised |-> TRUE]

\* guardar_tramos on the state S = [wb, archivo_excel, disk, walFile, markFile, hashseed]:
\* the state it leaves, what it returns and whether the save went through.
\* The save's exception is swallowed (except Exception: pass); the WAL files are not touched.
GuardarResult(S, tramos, fails) ==
    IF S.wb.none \/ S.archivo_excel = "" THEN
        [state |-> S, ret |-> <<0, 0, 0>>, raised |-> FALSE, save |-> "none"]
    ELSE
        LET acc == GuardarSheets(S.wb.sheets, tramos, S.hashseed)
            sv == safe_save_workbook(Intentos, fails)
            wb1 == [none |-> FALSE, sheets |-> acc.sheets]
        IN  [state |-> [S EXCEPT !.wb = wb1,
                                 !.disk = IF sv.saved THEN [exists |-> TRUE, sheets |-> acc.sheets]
                                          ELSE @],
             ret |-> <<acc.guardados, acc.u, acc.i>>,
             raised |-> FALSE,
             save |-> IF sv.saved THEN "ok" ELSE "failed"]

(***************************************************************************)
(* Write-ahead log                                                         *)
(***************************************************************************)
\* what json.dump writes for one character of a string (ensure_ascii=False):
\* the quote, the backslash and the control characters are escaped
EscapeChar(c) ==
    IF c = 34 THEN <<92, 34>>
    ELSE IF c = 92 THEN <<92, 92>>
    ELSE IF c = 8 THEN <<92, 98>>
    ELSE IF c = 12 THEN <<92, 102>>
    ELSE IF c = 10 THEN <<92, 110>>
    ELSE IF c = 13 THEN <<92, 114>>
    ELSE IF c = 9 THEN <<92, 116>>
    ELSE IF c < 32 THEN <<92, 117, 48, 48, 48 + (c \div 16),
                          IF c % 16 < 10 THEN 48 + (c % 16) ELSE 87 + (c % 16)>>
    ELSE <<c>>

RECURSIVE JsonEscape(_)
JsonEscape(s) == IF s = <<>> THEN <<>> ELSE EscapeChar(Head(s)) \o JsonEscape(Tail(s))

\* the string json.loads reads from the text between the quotes
RECURSIVE JsonUnescape(_)
JsonUnescape(s) ==
    IF s = <<>> THEN <<>>
    ELSE IF Head(s) # 92 THEN <<Head(s)>> \o JsonUnescape(Tail(s))
    ELSE IF s[2] = 117
         THEN LET hv(c) == IF c <= 57 THEN c - 48 ELSE IF c <= 70 THEN c - 55 ELSE c - 87
              IN  <<((hv(s[3]) * 16 + hv(s[4])) * 16 + hv(s[5])) * 16 + hv(s[6])>>
                  \o JsonUnescape(SubSeq(s, 7, Len(s)))
         ELSE <<CASE s[2] = 98 -> 8 [] s[2] = 102 -> 12 [] s[2] = 110 -> 10
                  [] s[2] = 114 -> 13 [] s[2] = 116 -> 9 [] OTHER -> s[2]>>
              \o JsonUnescape(SubSeq(s, 3, Len(s)))

\* json.dump(t, f) and the "\n": one line per record, True/False/None become
\* true/false/null; completa tells that the whole line reached the file
JsonDump(t) ==
    [nombre |-> JsonEscape(t.nombre), tiempo_seg |-> t.tiempo_seg,
     es_usual |-> IF t.es_usual = "True" THEN "true"
                  ELSE IF t.es_usual = "False" THEN "false" ELSE "null",
     completa |-> TRUE]

\* a json.loads that reads null as False
JsonLoadsNullFalse(line) ==
    [nombre |-> JsonUnescape(line.nombre), tiempo_seg |-> line.tiempo_seg,
     es_usual |-> IF line.es_usual = "true" THEN "True" ELSE "False"]

\* json.loads(line) of a whole line
JsonLoads(line) ==
    [nombre |-> JsonUnescape(line.nombre), tiempo_seg |-> line.tiempo_seg,
     es_usual |-> IF line.es_usual = "true" THEN "True"
                  ELSE IF line.es_usual = "false" THEN "False" ELSE "None"]

WalLines(tramos) == [k \in 1..Len(tramos) |-> JsonDump(tramos[k])]

\* the loop of lines 92-100: json.loads raises on a line that was cut short
\* and the line is skipped
RECURSIVE ReadWal(_)
ReadWal(lines) ==
    IF lines = <<>> THEN <<>>
    ELSE (IF Head(lines).completa THEN <<JsonLoads(Head(lines))>> ELSE <<>>)
         \o ReadWal(Tail(lines))

NoFile == [exists |-> FALSE, lines |-> <<>>]

\* _wal_clear on a state; the mutant leaves the marker behind
WalClearKeepsMarker(S) == [S EXCEPT !.walFile = NoFile]

WalClear(S) == [S EXCEPT !.walFile = NoFile, !.markFile = FALSE]

\* "def guardar_tramos(tramos)": the parameters the function accepts
guardar_tramos_params == {"tramos"}

\* "guardar_tramos(tramos, _skip_wal=True)": the arguments recover_from_wal passes
recover_call_args == {"tramos", "_skip_wal"}

\* mutant: the marker branch removes the marker only
RecoverResultMarkerOnly(S, fails) ==
    IF S.archivo_excel = "" THEN [state |-> S, raised |-> FALSE]
    ELSE IF ~S.walFile.exists THEN [state |-> S, raised |-> FALSE]
    ELSE IF S.markFile THEN [state |-> [S EXCEPT !.markFile = FALSE], raised |-> FALSE]
    ELSE [state |-> WalClear(S), raised |-> S.walFile.lines # <<>>]

\* recover_from_wal on a state: the state it leaves and whether it raises.
\* The call at line 110 passes a keyword guardar_tramos does not accept, so
\* Python raises TypeError before the body runs; "finally" clears the WAL.
RecoverResult(S, fails) ==
    IF S.archivo_excel = "" THEN [state |-> S, raised |-> FALSE]
    ELSE IF ~S.walFile.exists THEN [state |-> S, raised |-> FALSE]
    ELSE IF S.markFile THEN [state |-> WalClear(S), raised |-> FALSE]
    ELSE LET tramos == ReadWal(S.walFile.lines)
         IN  IF tramos = <<>> THEN [state |-> WalClear(S), raised |-> FALSE]
             ELSE IF recover_call_args \subseteq guardar_tramos_params
                  THEN [state |-> WalClear(GuardarResult(S, tramos, fails).state),
                        raised |-> FALSE]
                  ELSE [state |-> WalClear(S), raised |-> TRUE]

(***************************************************************************)
(* State                                                                   *)
(***************************************************************************)
Cur == [wb |-> wb, archivo_excel |-> archivo_excel, disk |-> disk,
        walFile |-> walFile, markFile |-> markFile, hashseed |-> hashseed]

SetCur(S) ==
    /\ wb' = S.wb
    /\ archivo_excel' = S.archivo_excel
    /\ disk' = S.disk
    /\ walFile' = S.walFile
    /\ markFile' = S.markFile
    /\ hashseed' = S.hashseed

NoWb == [none |-> TRUE, sheets |-> <<>>]

NoDisk == [exists |-> FALSE, sheets |-> <<>>]

\* no call was the last operation; arg is the integer argument of a call of
\* config.py
NoCall == [op |-> "none", arg |-> 0, batch |-> <<>>, ret |-> <<0, 0, 0>>, raised |-> FALSE,
           save |-> "none", logged |-> FALSE, preWal |-> NoFile, preMark |-> FALSE,
           preWb |-> NoWb, preDisk |-> NoDisk]

\* a call of guardar_tramos: its batch, what it returned, how the save ended, and
\* whether the WAL file held the batch when the loop appended
LastGuardar(tramos, r) ==
    [NoCall EXCEPT !.op = "guardar_tramos", !.batch = tramos, !.ret = r.ret,
                   !.raised = r.raised, !.save = r.save,
                   !.logged = (walFile.exists /\ ReadWal(walFile.lines) = tramos)]

\* a call of recover_from_wal: whether it raised, and the files and the Store it started from
LastRecover(r) ==
    [NoCall EXCEPT !.op = "recover_from_wal", !.raised = r.raised, !.preWal = walFile,
                   !.preMark = markFile, !.preWb = wb, !.preDisk = disk]

\* openpyxl.Workbook() with its active sheet retitled and given the header (gui.py 314-317)
BootNewSheets == <<_poner_encabezados(NewSheet(inus_name))>>

\* a workbook made outside the program: no "Tráfico inusual", sheets in no particular order
UserSheets == <<_poner_encabezados(NewSheet(<<98>>)), _poner_encabezados(NewSheet(desc_name)),
                _poner_encabezados(NewSheet(<<65>>))>>

\* the thread running ciclo() (gui.py 899)
Ciclo == 0

\* the threads captura_instantanea starts (gui.py 732)
Instantaneas == 1..MaxHilos

Hilos == {Ciclo} \cup Instantaneas

\* ciclo sleeps between its rounds; no instant-capture thread exists yet
HilosInit ==
    [t \in Hilos |-> [pc |-> IF t = Ciclo THEN "sleep" ELSE "unborn", queued |-> FALSE]]

(***************************************************************************)
(* config.py: the runtime globals and the capture window.  A datetime is   *)
(* the number of seconds since 00:00:00 of day 0; an hour of the day is a  *)
(* pair <<h, m>>.                                                          *)
(***************************************************************************)
timedelta(days, seconds) == days * 24 * 3600 + seconds

\* the hours the configuration window can hold (Spinbox 0..23, 0..59)
Horas == { <<6, 30>>, <<22, 0>> }

\* the values datetime.now() takes
Momentos ==
    { timedelta(d, hm[1] * 3600 + hm[2] * 60 + s) :
        d \in 0..MaxDias,
        hm \in Horas \cup { <<0, 0>>, <<12, 0>> },
        s \in {0, 30} }

\* integers handed over as a period in minutes
Minutos == { -5, 0, 15 }

\* siguiente_captura is <<>> (None) or <<dt>>
NoneDt == <<>>

\* the period taken as it comes
PeriodoSinMinimo(mins) == mins

\* max(10, int(mins)): the period is at least 10 minutes
PeriodoMinimo(mins) == IF mins > 10 THEN mins ELSE 10

\* DEFAULTS (config.py 26-37)
DEFAULTS == [modo_247 |-> TRUE, hora_ini |-> <<6, 0>>, hora_fin |-> <<22, 0>>,
             periodicidad_min |-> 10]

\* what load_cfg() can return: the file's values completed with DEFAULTS
CfgFiles ==
    {DEFAULTS} \cup
    [modo_247 : BOOLEAN, hora_ini : Horas, hora_fin : Horas, periodicidad_min : Minutos]

\* the module's globals as the import of config.py sets them (117-126)
ConfigBoot(cfg) ==
    [modo_247 |-> cfg.modo_247, hora_ini |-> cfg.hora_ini, hora_fin |-> cfg.hora_fin,
     intervalo_captura |-> PeriodoMinimo(cfg.periodicidad_min) * 60]

\* get_runtime_period_seconds()
get_runtime_period_seconds(c) == c.intervalo_captura

\* base_dt.replace(hour=hh, minute=mm, second=0, microsecond=0)
_dt_con_hora(base_dt, hh, mm) ==
    timedelta(base_dt \div timedelta(1, 0), hh * 3600 + mm * 60)

esta_dentro_horario(c, dt) ==
    IF c.modo_247 THEN TRUE
    ELSE LET hi == _dt_con_hora(dt, c.hora_ini[1], c.hora_ini[2])
             hf == _dt_con_hora(dt, c.hora_fin[1], c.hora_fin[2])
         IN  IF hi <= hf THEN hi <= dt /\ dt < hf
             ELSE ~(hf <= dt /\ dt < hi)

proximo_inicio_desde(c, dt) ==
    IF esta_dentro_horario(c, dt) THEN dt
    ELSE IF c.hora_ini = c.hora_fin
         THEN _dt_con_hora(dt + timedelta(1, 0), c.hora_ini[1], c.hora_ini[2])
    ELSE IF _dt_con_hora(dt, c.hora_ini[1], c.hora_ini[2]) > dt
         THEN _dt_con_hora(dt, c.hora_ini[1], c.hora_ini[2])
    ELSE _dt_con_hora(dt + timedelta(1, 0), c.hora_ini[1], c.hora_ini[2])

\* alinear_a_intervalo(desde, intervalo_seg), the local time zone being UTC
alinear_a_intervalo(desde, intervalo_seg) ==
    LET resto == desde % intervalo_seg
    IN  IF resto = 0 THEN desde - (desde % 60)
        ELSE desde + (intervalo_seg - resto)

\* config.py imported with no config file, the clock at the start, ciclo not yet run
HorarioInicial ==
    /\ config = ConfigBoot(DEFAULTS)
    /\ ahora = 0
    /\ siguiente_captura = NoneDt

\* no call of safe_save_workbook is under way; there is no workbook file and
\* no temporary file
GuardadoIdle ==
    [pc |-> "idle", intentos |-> 0, i |-> 0, attempts |-> 0, exitos |-> 0, sleeps |-> 0,
     last_exc |-> 0, raised_exc |-> 0, fallo |-> "none", tmp |-> "absent",
     target |-> "absent", pre |-> "absent"]

InitCommon ==
    /\ wb = NoWb
    /\ archivo_excel = ""
    /\ walFile = NoFile
    /\ markFile = FALSE
    /\ hashseed \in Seeds
    /\ startupOps = <<>>
    /\ last = NoCall
    /\ brut = <<>>
    /\ lista = <<>>
    /\ captura_lock = {}
    /\ hilos = HilosInit
    /\ guardado = GuardadoIdle
    /\ HorarioInicial

(***************************************************************************)
(* The storage module driven by any caller                                 *)
(***************************************************************************)
Init ==
    /\ InitCommon
    /\ disk = NoDisk
    /\ pc = "lib"

\* set_workbook(workbook, excel_path): the caller registers, once per process,
\* the workbook loaded from the file, or a new one when there is no file
set_workbook ==
    /\ pc = "lib"
    /\ wb.none
    /\ \E sheets \in (IF disk.exists THEN {disk.sheets} ELSE {BootNewSheets}),
          path \in {"", "p"} :
        /\ wb' = [none |-> FALSE, sheets |-> sheets]
        /\ archivo_excel' = path
    /\ last' = NoCall
    /\ UNCHANGED <<disk, walFile, markFile, hashseed, pc, startupOps>>
    /\ UNCHANGED fueraDeStorage

GuardarStep(tramos, fails) ==
    LET r == GuardarResult(Cur, tramos, fails)
    IN  /\ DataRows(wb.sheets) + Len(tramos) <= MaxRows
        /\ SetCur(r.state)
        /\ last' = LastGuardar(tramos, r)

\* guardar_tramos(tramos) on a batch of a transaction
guardar_tramos ==
    /\ pc = "lib"
    /\ \E tramos \in TxBatches, fails \in {0, Intentos} : GuardarStep(tramos, fails)
    /\ UNCHANGED <<pc, startupOps>>
    /\ UNCHANGED fueraDeStorage

\* _wal_write_transaction(excel_path, tramos_norm)
_wal_write_transaction ==
    /\ pc = "lib"
    /\ \E tramos \in TxBatches :
        walFile' = [exists |-> TRUE, lines |-> WalLines(tramos)]
    /\ last' = NoCall
    /\ UNCHANGED <<wb, archivo_excel, disk, markFile, hashseed, pc, startupOps>>
    /\ UNCHANGED fueraDeStorage

\* _wal_mark_committed(excel_path)
_wal_mark_committed ==
    /\ pc = "lib"
    /\ markFile' = TRUE
    /\ last' = NoCall
    /\ UNCHANGED <<wb, archivo_excel, disk, walFile, hashseed, pc, startupOps>>
    /\ UNCHANGED fueraDeStorage

\* _wal_clear(excel_path)
_wal_clear ==
    /\ pc = "lib"
    /\ walFile.exists \/ markFile
    /\ SetCur(WalClear(Cur))
    /\ last' = NoCall
    /\ UNCHANGED <<pc, startupOps>>
    /\ UNCHANGED fueraDeStorage

\* recover_from_wal()
recover_from_wal ==
    /\ pc = "lib"
    /\ \E fails \in {0, Intentos} :
        LET r == RecoverResult(Cur, fails)
        IN  /\ SetCur(r.state)
            /\ last' = LastRecover(r)
    /\ UNCHANGED <<pc, startupOps>>
    /\ UNCHANGED fueraDeStorage

\* the process ends (exit or crash) and a new one starts: the module globals
\* are None again (storage.py 121-122), the files stay
ProcessRestart ==
    /\ pc = "lib"
    /\ ~wb.none
    /\ wb' = NoWb
    /\ archivo_excel' = ""
    /\ hashseed' \in Seeds
    /\ last' = NoCall
    /\ UNCHANGED <<disk, walFile, markFile, pc, startupOps>>
    /\ UNCHANGED fueraDeStorage

Next ==
    \/ set_workbook
    \/ guardar_tramos
    \/ _wal_write_transaction
    \/ _wal_mark_committed
    \/ _wal_clear
    \/ recover_from_wal
    \/ ProcessRestart

Spec == Init /\ [][Next]_vars

(***************************************************************************)
(* The same module on a workbook file that may have been made outside the  *)
(* program, without the write-ahead log functions                          *)
(***************************************************************************)
InitOrden ==
    /\ InitCommon
    /\ disk \in {NoDisk, [exists |-> TRUE, sheets |-> UserSheets]}
    /\ pc = "lib"

\* guardar_tramos(tramos) on any batch
guardar_tramos_hojas ==
    /\ pc = "lib"
    /\ \E tramos \in Batches, fails \in {0, Intentos} : GuardarStep(tramos, fails)
    /\ UNCHANGED <<pc, startupOps>>
    /\ UNCHANGED fueraDeStorage

NextOrden ==
    \/ set_workbook
    \/ guardar_tramos_hojas
    \/ ProcessRestart

SpecOrden == InitOrden /\ [][NextOrden]_vars

(***************************************************************************)
(* Sheet titles: guardar_tramos on Usual records whose names are empty,    *)
(* longer than a title, or made of the characters a title may not hold     *)
(***************************************************************************)
NombresHoja == { Nombre.Vacio, Nombre.SoloProhibidos, Nombre.Largo, Nombre.LargoBarras, Nombre.CorteDosPuntos }

\* one Usual record of each name, also of the names of the two reserved
\* sheets, and an Unusual and an Unknown record
TituloBatches ==
    { <<Tramo(n, "True", 60)>> : n \in NombresHoja \cup {inus_name, desc_name} }
        \cup { <<Tramo(desc_name, "False", 60)>>, <<Tramo(inus_name, "None", 60)>> }

\* guardar_tramos(tramos) on one Usual record
guardar_tramos_titulos ==
    /\ pc = "lib"
    /\ \E tramos \in TituloBatches, fails \in {0, Intentos} : GuardarStep(tramos, fails)
    /\ UNCHANGED <<pc, startupOps>>
    /\ UNCHANGED fueraDeStorage

NextTitulos ==
    \/ set_workbook
    \/ guardar_tramos_titulos
    \/ ProcessRestart

SpecTitulos == Init /\ [][NextTitulos]_vars

(***************************************************************************)
(* Headers: guardar_tramos on a workbook loaded from a file whose sheets   *)
(* are empty or have the header                                            *)
(***************************************************************************)
EncabezadoBatches ==
    { <<>>, <<Tramo(Nombre.ZAve, "True", 720)>>, <<Tramo(Nombre.MainSt, "False", 60)>>,
      <<Tramo(Nombre.aBlvd, "None", 300)>> }

InitEncabezados ==
    /\ InitCommon
    /\ disk \in { NoDisk,
                  [exists |-> TRUE, sheets |-> <<NewSheet(<<98>>), NewSheet(desc_name)>>],
                  [exists |-> TRUE, sheets |-> UserSheets] }
    /\ pc = "lib"

\* guardar_tramos(tramos) on at most one record
guardar_tramos_encabezados ==
    /\ pc = "lib"
    /\ \E tramos \in EncabezadoBatches, fails \in {0, Intentos} : GuardarStep(tramos, fails)
    /\ UNCHANGED <<pc, startupOps>>
    /\ UNCHANGED fueraDeStorage

NextEncabezados ==
    \/ set_workbook
    \/ guardar_tramos_encabezados
    \/ ProcessRestart

SpecEncabezados == InitEncabezados /\ [][NextEncabezados]_vars

(***************************************************************************)
(* The WAL file: _wal_write_transaction, whole or ended by a crash of the  *)
(* process, and recover_from_wal                                           *)
(***************************************************************************)
WalBatches ==
    SeqsUpTo({ Tramo(Nombre.ZAve, "True", 720), Tramo(Nombre.Comillas, "False", 60),
               Tramo(Nombre.CtrlName, "None", 60) }, MaxBatch)

\* _wal_write_transaction(excel_path, tramos_norm) up to its return
_wal_write_transaction_batch ==
    /\ pc = "lib"
    /\ \E tramos \in WalBatches :
        /\ walFile' = [exists |-> TRUE, lines |-> WalLines(tramos)]
        /\ last' = [NoCall EXCEPT !.op = "_wal_write_transaction", !.batch = tramos]
    /\ UNCHANGED <<wb, archivo_excel, disk, markFile, hashseed, pc, startupOps>>
    /\ UNCHANGED fueraDeStorage

\* the process dies inside _wal_write_transaction: the file holds the lines
\* of the first k - 1 records and a part of the k-th line
_wal_write_crash ==
    /\ pc = "lib"
    /\ \E tramos \in WalBatches : \E k \in 1..Len(tramos) :
        /\ walFile' = [exists |-> TRUE,
                       lines |-> WalLines(SubSeq(tramos, 1, k - 1))
                                 \o <<[JsonDump(tramos[k]) EXCEPT !.completa = FALSE]>>]
        /\ last' = [NoCall EXCEPT !.op = "_wal_write_crash", !.batch = SubSeq(tramos, 1, k - 1)]
    /\ wb' = NoWb
    /\ archivo_excel' = ""
    /\ hashseed' \in Seeds
    /\ UNCHANGED <<disk, markFile, pc, startupOps>>
    /\ UNCHANGED fueraDeStorage

NextWal ==
    \/ set_workbook
    \/ _wal_write_transaction_batch
    \/ _wal_write_crash
    \/ recover_from_wal
    \/ ProcessRestart

SpecWal == Init /\ [][NextWal]_vars

(***************************************************************************)
(* The application (gui.py): startup, captures, stop                       *)
(***************************************************************************)
InitApp ==
    /\ InitCommon
    /\ disk = NoDisk
    /\ pc = "boot"

\* _bootstrap_startup(), called at gui.py 868; ruta is the configured path,
\* dialogo the answer to the file dialog, cargable whether load_workbook opens
\* the file.  A save that fails on every retry raises out of the module code
\* and ends the program.
_bootstrap_startup ==
    /\ pc = "boot"
    /\ \E ruta \in {"", "p"}, dialogo \in {"", "p"}, cargable \in BOOLEAN, fails \in {0, Intentos} :
        LET sv == safe_save_workbook(Intentos, fails)
            nuevo == ruta = "" \/ ~disk.exists
            loaded == IF HasSheet(disk.sheets, inus_name) THEN disk.sheets
                      ELSE Append(disk.sheets, _poner_encabezados(NewSheet(inus_name)))
            sheets == IF nuevo THEN BootNewSheets ELSE loaded
            registers == IF nuevo THEN dialogo # "" ELSE cargable
        IN  IF ~registers THEN
                /\ pc' = "running"
                /\ UNCHANGED <<wb, archivo_excel, disk>>
            ELSE IF sv.raised THEN
                /\ pc' = "stopped"
                /\ UNCHANGED <<wb, archivo_excel, disk>>
            ELSE
                /\ pc' = "running"
                /\ disk' = [exists |-> TRUE, sheets |-> sheets]
                /\ wb' = [none |-> FALSE, sheets |-> sheets]
                /\ archivo_excel' = "p"
    /\ startupOps' = Append(startupOps, "_bootstrap_startup")
    /\ last' = NoCall
    /\ UNCHANGED <<walFile, markFile, hashseed>>
    /\ UNCHANGED fueraDeStorage

\* _captura_ejecucion(): the batch detect_all returns goes to guardar_tramos
_captura_ejecucion ==
    /\ pc = "running"
    /\ \E tramos \in TxBatches, fails \in {0, Intentos} : GuardarStep(tramos, fails)
    /\ UNCHANGED <<pc, startupOps>>
    /\ UNCHANGED fueraDeStorage

\* the names wb and archivo_excel of gui.py if they were the live globals of storage.py
gui_imports_live == [wb |-> wb, archivo_excel |-> archivo_excel]

\* "from storage import wb, archivo_excel" (gui.py 348) binds the values the
\* globals of storage.py have when gui.py is imported: None and None
gui_imports == [wb |-> NoWb, archivo_excel |-> ""]

\* detener(): "if wb and archivo_excel" reads gui.py's own names, so the save
\* at 800-804 (exceptions swallowed) is skipped; the program then ends
detener ==
    /\ pc = "running"
    /\ pc' = "stopped"
    /\ \E fails \in {0, Intentos} :
           disk' = IF ~gui_imports.wb.none /\ gui_imports.archivo_excel # ""
                      /\ safe_save_workbook(Intentos, fails).saved
                   THEN [exists |-> TRUE, sheets |-> gui_imports.wb.sheets]
                   ELSE disk
    /\ last' = NoCall
    /\ UNCHANGED <<wb, archivo_excel, walFile, markFile, hashseed, startupOps>>
    /\ UNCHANGED fueraDeStorage

\* the program is started again
AppStart ==
    /\ pc = "stopped"
    /\ pc' = "boot"
    /\ wb' = NoWb
    /\ archivo_excel' = ""
    /\ hashseed' \in Seeds
    /\ startupOps' = <<>>
    /\ last' = NoCall
    /\ captura_lock' = {}
    /\ hilos' = HilosInit
    /\ UNCHANGED <<disk, walFile, markFile>>
    /\ UNCHANGED <<detectorVars, guardadoVars, horarioVars>>

NextApp ==
    \/ _bootstrap_startup
    \/ _captura_ejecucion
    \/ detener
    \/ AppStart

SpecApp == InitApp /\ [][NextApp]_vars

(***************************************************************************)
(* The detector (analyzer.py): detect_all on the raw records of one capture *)
(***************************************************************************)
MaxBrut == 3       \* raw records the page extractor returns for one capture

unusual_flag == <<117,110,117,115,117,97,108>>   \* "unusual"
watch_flag == <<119,97,116,99,104>>              \* "watch"

\* the texts of the "current" and "historic" lines of a card
Texto ==
    [ Min12 |-> <<49,50,32,109,105,110>>,    \* "12 min"
      Min9 |-> <<57,32,109,105,110>>,    \* "9 min"
      MinutosVel30 |-> <<57, 32, 77, 73, 78, 85, 84, 79, 83, 32, 51, 48, 32, 107, 109, 47, 104>>,    \* "9 MINUTOS 30 km/h"
      Vel8 |-> <<56, 32, 107, 109, 104>>,    \* "8 kmh"
      Vel7 |-> <<55, 32, 107, 109, 47, 104>>,    \* "7 km/h"
      VelMala |-> <<49, 46, 50, 46, 51, 32, 107, 109, 47, 104>>,    \* "1.2.3 km/h"
      Minutes0 |-> <<53, 32, 109, 105, 110, 117, 116, 101, 115, 32, 48, 32, 107, 109, 47, 104>>,    \* "5 minutes 0 km/h"
      DosMin |-> <<51, 32, 109, 105, 110, 44, 32, 55, 32, 109, 105, 110, 32, 50, 50, 44, 53, 32, 107, 109, 47, 104>>,    \* "3 min, 7 min 22,5 km/h"
      SoloComa |-> <<44, 32, 107, 109, 47, 104>> ]    \* ", km/h"

\* the texts of the distance line of a card
Distancia ==
    [ Km4 |-> <<52,32,107,109>>,    \* "4 km"
      Km5 |-> <<53,32,107,109>>,    \* "5 km"
      Km45 |-> <<52, 46, 53, 32, 107, 109>>,    \* "4.5 km"
      Km10 |-> <<49, 48, 32, 107, 109>>,    \* "10 km"
      Km025 |-> <<48, 44, 50, 53, 32, 107, 109>>,    \* "0,25 km"
      KmMala |-> <<49, 46, 50, 46, 51, 32, 107, 109>>,    \* "1.2.3 km"
      KmComa |-> <<44, 32, 107, 109>>,    \* ", km"
      Kms12 |-> <<49, 50, 32, 107, 109, 115>>,    \* "12 kms"
      c |-> <<99>>,    \* "c"
      bPipesc |-> <<98, 124, 124, 99>> ]    \* "b||c"

\* one entry of the list _js_extraer_tramos returns
Raw(name, current, historic, dist, jam, flag) ==
    [name |-> name, current |-> current, historic |-> historic, dist |-> dist,
     jam |-> jam, section_flag |-> flag]

\* what the page extractor emits: a non-empty trimmed name, the texts of the
\* card, and the flag '', 'watch' or 'unusual'
Brutos == { Raw(Nombre.NameA, Texto.Min12, <<>>, Distancia.Km4, 1, watch_flag),
            Raw(Nombre.NameA, Texto.Min12, <<>>, Distancia.Km4, 3, unusual_flag),
            Raw(Nombre.NameA, <<>>, Texto.Min12, Distancia.Km4, 3, <<>>),
            Raw(Nombre.NameA, Texto.Min12, Texto.Min9, Distancia.Km5, 1, unusual_flag),
            Raw(Nombre.NameB, Texto.Min12, Texto.Min9, Distancia.Km4, 1, watch_flag),
            Raw(Nombre.NamePipes, Texto.Min12, <<>>, <<>>, 1, <<>>) }

BrutLists == SeqsUpTo(Brutos, MaxBrut)

\* lines 529-537; the mutant lets the jam level decide
ClasificarPorJam(r) ==
    LET flag == Lower(Strip(r.section_flag))
    IN  IF flag = unusual_flag \/ r.jam >= 3 THEN "False"
        ELSE IF flag = watch_flag THEN "True"
        ELSE "None"

Clasificar(r) ==
    LET flag == Lower(Strip(r.section_flag))
    IN  IF flag = unusual_flag THEN "False"
        ELSE IF flag = watch_flag THEN "True"
        ELSE "None"

\* "||"
Sep == <<124, 124>>

\* f"{name}||{dist_raw}||{clave_curr}"; the mutant leaves the distance out
ClaveSinDist(r) ==
    LET curr == Strip(r.current)
        clave_curr == IF curr # <<>> THEN curr ELSE Strip(r.historic)
    IN  Strip(r.name) \o Sep \o Sep \o clave_curr

Clave(r) ==
    LET curr == Strip(r.current)
        clave_curr == IF curr # <<>> THEN curr ELSE Strip(r.historic)
    IN  Strip(r.name) \o Sep \o Strip(r.dist) \o Sep \o clave_curr

(***************************************************************************)
(* The parsers of analyzer.py.  A parsed value is unset (None), a number   *)
(* n/d with d a power of ten, or an exception leaving the function.        *)
(***************************************************************************)
Unset == [some |-> FALSE, n |-> 0, d |-> 1, exc |-> FALSE]
Num(n, d) == [some |-> TRUE, n |-> n, d |-> d, exc |-> FALSE]
Lanzada == [some |-> FALSE, n |-> 0, d |-> 1, exc |-> TRUE]

\* \d, [\d.,], \s and \w of the re module for the code points below 256
Clase ==
    [ Digits |-> 48..57,
      NumChars |-> (48..57) \cup {44, 46},
      Spaces |-> {9, 10, 11, 12, 13, 28, 29, 30, 31, 32, 133, 160},
      WordChars |-> (48..57) \cup (65..90) \cup {95} \cup (97..122)
                    \cup {170, 178, 179, 181, 185, 186, 188, 189, 190}
                    \cup ((192..255) \ {215, 247}) ]

\* where the longest run of characters of C that starts at i ends (the position behind it)
RunEnd(s, i, C) ==
    CHOOSE j \in i..(Len(s) + 1) :
        /\ \A k \in i..(j - 1) : s[k] \in C
        /\ (j = Len(s) + 1 \/ s[j] \notin C)

\* the literal at position j, letters compared without case (re.I)
LitAt(s, j, lit) ==
    /\ j + Len(lit) - 1 <= Len(s)
    /\ \A k \in 1..Len(lit) : LowerChar(s[j + k - 1]) = lit[k]

\* \b behind a letter: the text ends at p or has no word character there
Boundary(s, p) == p > Len(s) \/ s[p] \notin Clase.WordChars

\* int() and the integer part of float() on decimal digits
RECURSIVE DecVal(_)
DecVal(digs) ==
    IF digs = <<>> THEN 0
    ELSE DecVal(SubSeq(digs, 1, Len(digs) - 1)) * 10 + (digs[Len(digs)] - 48)

RECURSIVE Pow10(_)
Pow10(k) == IF k = 0 THEN 1 ELSE 10 * Pow10(k - 1)

\* n/d without the trailing zeros of the fraction
RECURSIVE Reduce(_, _)
Reduce(n, d) == IF d > 1 /\ n % 10 = 0 THEN Reduce(n \div 10, d \div 10) ELSE Num(n, d)


\* float(s) for s of digits and "."; ValueError unless s has a digit and at most one "."
PyFloat(s) ==
    LET dots == { k \in 1..Len(s) : s[k] = 46 }
        digs == SelectSeq(s, LAMBDA c : c \in Clase.Digits)
    IN  IF Cardinality(dots) > 1 \/ digs = <<>> THEN Lanzada
        ELSE LET frac == IF dots = {} THEN 0 ELSE Len(s) - (CHOOSE k \in dots : TRUE)
             IN  Reduce(DecVal(digs), Pow10(frac))

\* the starts at which (\d+)\s*min(?:utos)?\b matches
MinStarts(s) ==
    { i \in 1..Len(s) :
        /\ s[i] \in Clase.Digits
        /\ LET k == RunEnd(s, RunEnd(s, i, Clase.Digits), Clase.Spaces)
           IN  /\ LitAt(s, k, <<109, 105, 110>>)
               /\ \/ (LitAt(s, k + 3, <<117, 116, 111, 115>>) /\ Boundary(s, k + 7))
                  \/ Boundary(s, k + 3) }

\* the starts at which ([\d.,]+)\s*km/?h matches
VelStarts(s) ==
    { i \in 1..Len(s) :
        /\ s[i] \in Clase.NumChars
        /\ LET k == RunEnd(s, RunEnd(s, i, Clase.NumChars), Clase.Spaces)
           IN  /\ LitAt(s, k, <<107, 109>>)
               /\ (LitAt(s, k + 2, <<47, 104>>) \/ LitAt(s, k + 2, <<104>>)) }

\* the starts at which ([\d.,]+)\s*km\b matches
DistStarts(s) ==
    { i \in 1..Len(s) :
        /\ s[i] \in Clase.NumChars
        /\ LET k == RunEnd(s, RunEnd(s, i, Clase.NumChars), Clase.Spaces)
           IN  LitAt(s, k, <<107, 109>>) /\ Boundary(s, k + 2) }

\* m.group(1) of re.search: the run at the leftmost start
Group1(s, starts, C) ==
    LET i == CHOOSE i \in starts : \A j \in starts : i <= j
    IN  SubSeq(s, i, RunEnd(s, i, C) - 1)

_parse_minutos(texto) ==
    IF MinStarts(texto) = {} THEN Unset
    ELSE Num(DecVal(Group1(texto, MinStarts(texto), Clase.Digits)), 1)

\* float(m.group(1).replace(",", ".")) outside a try: the ValueError leaves the function
_parse_vel_kmh_sin_try(texto) ==
    IF VelStarts(texto) = {} THEN Unset
    ELSE PyFloat(ReplaceChar(Group1(texto, VelStarts(texto), Clase.NumChars), 44, <<46>>))

_parse_vel_kmh(texto) ==
    IF VelStarts(texto) = {} THEN Unset
    ELSE LET f == PyFloat(ReplaceChar(Group1(texto, VelStarts(texto), Clase.NumChars), 44, <<46>>))
         IN  IF f.exc THEN Unset ELSE f

_parse_dist_km(texto) ==
    IF DistStarts(texto) = {} THEN Unset
    ELSE LET f == PyFloat(ReplaceChar(Group1(texto, DistStarts(texto), Clase.NumChars), 44, <<46>>))
         IN  IF f.exc THEN Unset ELSE f

_parse_stat_to_min_vel(texto) == [min |-> _parse_minutos(texto), vel |-> _parse_vel_kmh(texto)]

\* the decimal digits of n >= 0
RECURSIVE DigitsOf(_)
DigitsOf(n) == IF n < 10 THEN <<48 + n>> ELSE Append(DigitsOf(n \div 10), 48 + (n % 10))

\* f"{n:02d}"
Fmt02d(n) == IF n < 10 THEN <<48>> \o DigitsOf(n) ELSE DigitsOf(n)

\* int(p / q) for p >= 0, q > 0: the fraction is dropped
Truncar(p, q) == p \div q

\* round(p / q) for p >= 0, q > 0: to the nearest integer, a half to the even one
Round(p, q) ==
    LET f == p \div q
        r == p % q
    IN  IF 2 * r < q THEN f
        ELSE IF 2 * r > q THEN f + 1
        ELSE IF f % 2 = 0 THEN f ELSE f + 1

\* horas * 3600 is dist_km / vel_kmh * 3600 = (dn * vd * 3600) / (dd * vn)
_tiempo_desde_dist_y_vel(dist_km, vel_kmh) ==
    IF ~dist_km.some \/ ~vel_kmh.some \/ vel_kmh.n <= 0 THEN [seg |-> Unset, mmss |-> <<>>]
    ELSE LET total_seg == Round(dist_km.n * vel_kmh.d * 3600, dist_km.d * vel_kmh.n)
             mm == total_seg \div 60
             ss == total_seg % 60
         IN  [seg |-> Num(total_seg, 1), mmss |-> Fmt02d(mm) \o <<58>> \o Fmt02d(ss)]

\* "x_h if x_c is None else x_c": a preference the other way round
PreferirHistoric(c, h) ==
    IF c.exc \/ h.exc THEN Lanzada ELSE IF h.some THEN h ELSE c

\* "x_c if x_c is not None else x_h" (lines 552-553), both already evaluated
Preferir(c, h) ==
    IF c.exc \/ h.exc THEN Lanzada ELSE IF c.some THEN c ELSE h

\* a choice that takes the derived duration whenever distance and speed are known
DuracionDerivadaPrimero(minutos, d_km, vel) ==
    IF minutos.exc \/ d_km.exc \/ vel.exc THEN [seg |-> Lanzada, mmss |-> <<>>]
    ELSE IF d_km.some /\ vel.some /\ vel.n > 0 THEN _tiempo_desde_dist_y_vel(d_km, vel)
    ELSE IF minutos.some
    THEN [seg |-> Num(minutos.n * 60, 1), mmss |-> Fmt02d(minutos.n) \o <<58, 48, 48>>]
    ELSE [seg |-> Unset, mmss |-> <<>>]

\* lines 556-560
Duracion(minutos, d_km, vel) ==
    IF minutos.exc \/ d_km.exc \/ vel.exc THEN [seg |-> Lanzada, mmss |-> <<>>]
    ELSE IF minutos.some
    THEN [seg |-> Num(minutos.n * 60, 1), mmss |-> Fmt02d(minutos.n) \o <<58, 48, 48>>]
    ELSE _tiempo_desde_dist_y_vel(d_km, vel)

\* TramoNorm(...) of a raw record (lines 523-568, without the log string raw)
Normalizar(r) ==
    LET curr == Strip(r.current)
        hist == Strip(r.historic)
        dist_raw == Strip(r.dist)
        c == _parse_stat_to_min_vel(curr)
        h == _parse_stat_to_min_vel(hist)
        minutos == Preferir(c.min, h.min)
        vel == Preferir(c.vel, h.vel)
        d_km == _parse_dist_km(dist_raw)
        dur == Duracion(minutos, d_km, vel)
    IN  [nombre |-> Strip(r.name), dist_km |-> d_km, tiempo_min |-> minutos,
         tiempo_seg |-> dur.seg, tiempo_mmss |-> dur.mmss, vel_kmh |-> vel,
         jam |-> r.jam, es_usual |-> Clasificar(r),
         current_raw |-> curr, historic_raw |-> hist, dist_raw |-> dist_raw]

\* an exception left one of the parsers while the record was built
NormalizarLanza(x) == x.tiempo_min.exc \/ x.vel_kmh.exc \/ x.dist_km.exc \/ x.tiempo_seg.exc

\* for r in brut; an exception ends the loop and the call
RECURSIVE DetectLoop(_, _, _)
DetectLoop(rs, vistos, acc) ==
    IF rs = <<>> THEN acc
    ELSE LET r == Head(rs)
         IN  IF Strip(r.name) = <<>> THEN DetectLoop(Tail(rs), vistos, acc)
             ELSE IF Clave(r) \in vistos THEN DetectLoop(Tail(rs), vistos, acc)
             ELSE IF NormalizarLanza(Normalizar(r)) THEN [acc EXCEPT !.raised = TRUE]
             ELSE DetectLoop(Tail(rs), vistos \cup {Clave(r)},
                             [acc EXCEPT !.lista = Append(@, Normalizar(r))])

\* what detect_all returns for the raw list rs (an empty list returns at 514),
\* or that it raised
DetectAll(rs) ==
    IF rs = <<>> THEN [lista |-> <<>>, raised |-> FALSE]
    ELSE DetectLoop(rs, {}, [lista |-> <<>>, raised |-> FALSE])

InitDetect ==
    /\ wb = NoWb
    /\ archivo_excel = ""
    /\ disk = NoDisk
    /\ walFile = NoFile
    /\ markFile = FALSE
    /\ hashseed \in Seeds
    /\ startupOps = <<>>
    /\ last = NoCall
    /\ pc = "detect"
    /\ brut \in BrutLists
    /\ lista = <<>>
    /\ captura_lock = {}
    /\ hilos = HilosInit
    /\ guardado = GuardadoIdle
    /\ HorarioInicial

\* TrafficDetector.detect_all()
detect_all ==
    /\ pc = "detect"
    /\ LET r == DetectAll(brut)
       IN  /\ lista' = (IF r.raised THEN <<>> ELSE r.lista)
           /\ last' = [NoCall EXCEPT !.op = "detect_all", !.raised = r.raised]
    /\ pc' = "detected"
    /\ UNCHANGED <<wb, archivo_excel, disk, walFile, markFile, hashseed, startupOps, brut>>
    /\ UNCHANGED <<hilosVars, guardadoVars, horarioVars>>

\* the next capture: the page extractor returns another list
_js_extraer_tramos ==
    /\ pc = "detected"
    /\ brut' \in BrutLists
    /\ lista' = <<>>
    /\ pc' = "detect"
    /\ UNCHANGED <<wb, archivo_excel, disk, walFile, markFile, hashseed, startupOps, last>>
    /\ UNCHANGED <<hilosVars, guardadoVars, horarioVars>>

NextDetect ==
    \/ detect_all
    \/ _js_extraer_tramos

SpecDetect == InitDetect /\ [][NextDetect]_vars

(***************************************************************************)
(* detect_all on raw records whose texts hold the separator of the key     *)
(***************************************************************************)
ClaveLists ==
    SeqsUpTo({ Raw(Nombre.aPipesb, Texto.Min12, <<>>, Distancia.c, 1, watch_flag),
               Raw(Nombre.a, Texto.Min12, <<>>, Distancia.bPipesc, 1, watch_flag),
               Raw(Nombre.a, Texto.Min12, <<>>, Distancia.c, 1, watch_flag),
               Raw(Nombre.a, Texto.Min9, <<>>, Distancia.c, 1, unusual_flag) }, MaxBrut)

InitClave ==
    /\ wb = NoWb
    /\ archivo_excel = ""
    /\ disk = NoDisk
    /\ walFile = NoFile
    /\ markFile = FALSE
    /\ hashseed \in Seeds
    /\ startupOps = <<>>
    /\ last = NoCall
    /\ pc = "detect"
    /\ brut \in ClaveLists
    /\ lista = <<>>
    /\ captura_lock = {}
    /\ hilos = HilosInit
    /\ guardado = GuardadoIdle
    /\ HorarioInicial

\* the next capture: the page extractor returns another list of such records
_js_extraer_tramos_clave ==
    /\ pc = "detected"
    /\ brut' \in ClaveLists
    /\ lista' = <<>>
    /\ pc' = "detect"
    /\ UNCHANGED <<wb, archivo_excel, disk, walFile, markFile, hashseed, startupOps, last>>
    /\ UNCHANGED <<hilosVars, guardadoVars, horarioVars>>

NextClave ==
    \/ detect_all
    \/ _js_extraer_tramos_clave

SpecClave == InitClave /\ [][NextClave]_vars

(***************************************************************************)
(* One capture (gui.py 696-714) on the workbook the startup has created:   *)
(* detect_all on a raw record with any texts, then guardar_tramos of the   *)
(* list it returned                                                        *)
(***************************************************************************)

Textos == { <<>>, Texto.Min12, Texto.MinutosVel30, Texto.Vel8, Texto.Vel7, Texto.VelMala, Texto.Minutes0, Texto.DosMin, Texto.SoloComa }
Distancias == { <<>>, Distancia.Km45, Distancia.Km10, Distancia.Km025, Distancia.KmMala, Distancia.KmComa, Distancia.Kms12 }

ParseLists ==
    { <<Raw(Nombre.NameA, c, h, d, 1, watch_flag)>> : c \in Textos, h \in Textos, d \in Distancias }

\* the cell value "" of line 354, written for a tiempo_seg that is no number
CeldaVacia == -1

\* the fields of the records guardar_tramos reads with _val
TramosDe(l) ==
    [k \in 1..Len(l) |->
        Tramo(l[k].nombre, l[k].es_usual,
              IF l[k].tiempo_seg.some THEN l[k].tiempo_seg.n ELSE CeldaVacia)]

InitParse ==
    /\ wb = [none |-> FALSE, sheets |-> BootNewSheets]
    /\ archivo_excel = "p"
    /\ disk = [exists |-> TRUE, sheets |-> BootNewSheets]
    /\ walFile = NoFile
    /\ markFile = FALSE
    /\ hashseed \in Seeds
    /\ startupOps = <<>>
    /\ last = NoCall
    /\ pc = "detect"
    /\ brut \in ParseLists
    /\ lista = <<>>
    /\ captura_lock = {}
    /\ hilos = HilosInit
    /\ guardado = GuardadoIdle
    /\ HorarioInicial

\* guardar_tramos(tramos_crudos) of _captura_ejecucion; an exception of
\* detect_all would have left the function before
guardar_lista ==
    /\ pc = "detected"
    /\ ~last.raised
    /\ \E fails \in {0, Intentos} : GuardarStep(TramosDe(lista), fails)
    /\ pc' = "persisted"
    /\ UNCHANGED <<startupOps, brut, lista>>
    /\ UNCHANGED <<hilosVars, guardadoVars, horarioVars>>

NextParse ==
    \/ detect_all
    \/ guardar_lista

SpecParse == InitParse /\ [][NextParse]_vars

(***************************************************************************)
(* The capture threads (gui.py): the scheduler thread ciclo and the        *)
(* threads captura_instantanea starts, interleaved statement by statement  *)
(***************************************************************************)
\* threading.Lock.acquire() without the lock: every caller gets through
AcquirableAlways(lock) == TRUE

\* threading.Lock.acquire() goes through only when no thread holds the lock
Acquirable(lock) == lock = {}

\* what detect_all hands to guardar_tramos in a capture made by a thread:
\* nothing, one Usual record or one Unusual record
CapturaBatches == { <<>>, <<Tramo(Nombre.ZAve, "True", 720)>>, <<Tramo(Nombre.MainSt, "False", 60)>> }

SetHilo(t, newpc, q) == hilos' = [hilos EXCEPT ![t] = [pc |-> newpc, queued |-> q]]

\* captura_instantanea() on the GUI thread: "if captura_lock.locked(): ... return",
\* else Thread(target=_run).start()
captura_instantanea ==
    /\ pc = "running"
    /\ \E t \in Instantaneas :
        /\ hilos[t].pc = "unborn"
        /\ IF captura_lock # {} THEN UNCHANGED hilos
           ELSE SetHilo(t, "started", FALSE)
    /\ UNCHANGED <<wb, archivo_excel, disk, walFile, markFile, hashseed, pc, startupOps, last,
                   captura_lock>>
    /\ UNCHANGED <<detectorVars, guardadoVars, horarioVars>>

\* ciclo() when the scheduled capture is due: "if not captura_lock.locked():"
\* (759); with the lock taken the round is skipped (767)
ciclo_locked ==
    /\ pc = "running"
    /\ hilos[Ciclo].pc = "sleep"
    /\ IF captura_lock # {} THEN UNCHANGED hilos
       ELSE SetHilo(Ciclo, "checked", FALSE)
    /\ UNCHANGED <<wb, archivo_excel, disk, walFile, markFile, hashseed, pc, startupOps, last,
                   captura_lock>>
    /\ UNCHANGED <<detectorVars, guardadoVars, horarioVars>>

\* "with captura_lock:" (723, 760): the thread takes the lock, or blocks until
\* the holder releases it and takes it then
with_captura_lock(t) ==
    /\ pc = "running"
    /\ hilos[t].pc \in {"started", "checked", "waiting"}
    /\ IF Acquirable(captura_lock)
       THEN /\ captura_lock' = captura_lock \cup {t}
            /\ SetHilo(t, "holding", hilos[t].pc = "waiting")
       ELSE /\ hilos[t].pc # "waiting"
            /\ SetHilo(t, "waiting", FALSE)
            /\ UNCHANGED captura_lock
    /\ UNCHANGED <<wb, archivo_excel, disk, walFile, markFile, hashseed, pc, startupOps, last>>
    /\ UNCHANGED <<detectorVars, guardadoVars, horarioVars>>

\* _captura_ejecucion() inside the with block (727, 763): it returns after
\* guardar_tramos, or _ensure_detector_started or detect_all raises and the
\* "except Exception" of the block (729, 765) logs the error
captura_en_hilo(t) ==
    /\ pc = "running"
    /\ hilos[t].pc = "holding"
    /\ \/ /\ last' = [NoCall EXCEPT !.op = "detect_all", !.raised = TRUE]
          /\ UNCHANGED <<wb, archivo_excel, disk, walFile, markFile, hashseed>>
       \/ \E tramos \in CapturaBatches, fails \in {0, Intentos} : GuardarStep(tramos, fails)
    /\ SetHilo(t, "captured", hilos[t].queued)
    /\ UNCHANGED <<pc, startupOps, captura_lock>>
    /\ UNCHANGED <<detectorVars, guardadoVars, horarioVars>>

\* the block left without releasing the lock (acquire() with no release())
release_sin_soltar(t) ==
    /\ pc = "running"
    /\ hilos[t].pc = "captured"
    /\ SetHilo(t, IF t = Ciclo THEN "sleep" ELSE "done", FALSE)
    /\ UNCHANGED <<wb, archivo_excel, disk, walFile, markFile, hashseed, pc, startupOps, last,
                   captura_lock>>
    /\ UNCHANGED <<detectorVars, guardadoVars, horarioVars>>

\* the end of the with block: the lock is released; ciclo goes on with its
\* loop, an instant-capture thread ends
release_captura_lock(t) ==
    /\ pc = "running"
    /\ hilos[t].pc = "captured"
    /\ captura_lock' = captura_lock \ {t}
    /\ SetHilo(t, IF t = Ciclo THEN "sleep" ELSE "done", FALSE)
    /\ UNCHANGED <<wb, archivo_excel, disk, walFile, markFile, hashseed, pc, startupOps, last>>
    /\ UNCHANGED <<detectorVars, guardadoVars, horarioVars>>

InitHilos ==
    /\ InitCommon
    /\ disk = NoDisk
    /\ pc = "boot"

NextHilos ==
    \/ _bootstrap_startup
    \/ captura_instantanea
    \/ ciclo_locked
    \/ \E t \in Hilos : with_captura_lock(t)
    \/ \E t \in Hilos : captura_en_hilo(t)
    \/ \E t \in Hilos : release_captura_lock(t)
    \/ detener
    \/ AppStart

SpecHilos == InitHilos /\ [][NextHilos]_vars

\* _captura_ejecucion() inside the with block when the page shows no route:
\* _ensure_detector_started or detect_all raises, or detect_all returns []
\* and guardar_tramos([]) runs
captura_sin_tramos(t) ==
    /\ pc = "running"
    /\ hilos[t].pc = "holding"
    /\ \/ /\ last' = [NoCall EXCEPT !.op = "detect_all", !.raised = TRUE]
          /\ UNCHANGED <<wb, archivo_excel, disk, walFile, markFile, hashseed>>
       \/ \E fails \in {0, Intentos} : GuardarStep(<<>>, fails)
    /\ SetHilo(t, "captured", hilos[t].queued)
    /\ UNCHANGED <<pc, startupOps, captura_lock>>
    /\ UNCHANGED <<detectorVars, guardadoVars, horarioVars>>

\* a statement of one of the capture threads
HiloPaso ==
    \/ ciclo_locked
    \/ \E t \in Hilos : with_captura_lock(t)
    \/ \E t \in Hilos : captura_sin_tramos(t)
    \/ \E t \in Hilos : release_captura_lock(t)

NextCandado ==
    \/ _bootstrap_startup
    \/ captura_instantanea
    \/ HiloPaso
    \/ detener
    \/ AppStart

\* the threads go on in the end: ciclo wakes up from time.sleep(1), a thread
\* that can take the lock takes it, a capture returns or raises, and the
\* with block is left
SpecCandado == InitHilos /\ [][NextCandado]_vars /\ WF_vars(HiloPaso)

(***************************************************************************)
(* safe_save_workbook and atomic_save_workbook (storage.py), statement by  *)
(* statement.  A file's content is "absent", "old" (a complete earlier     *)
(* workbook), "new" (the complete workbook being saved), "empty" or        *)
(* "partial".  Exceptions are named by the number of the attempt that      *)
(* raised them.  The os.remove of the temporary file in the finally block  *)
(* is taken to succeed.                                                    *)
(***************************************************************************)
\* workbook.save(ruta): the workbook written straight into the target
save_path_direct == "ruta"

\* workbook.save(tmp) (line 189): the workbook is written into the temporary file
save_path == "tmp"

\* time.sleep after every failed attempt
EsperaSiempre(i, intentos) == TRUE

\* "if i < intentos - 1: time.sleep(espera_s)" (line 210)
EsperaTrasFallo(i, intentos) == i < intentos - 1

\* what a call of safe_save_workbook leaves alone
fueraDeGuardado ==
    <<wb, archivo_excel, disk, walFile, markFile, hashseed, pc, startupOps, last,
      detectorVars, hilosVars, horarioVars>>

\* the caller has a workbook to save: safe_save_workbook(workbook, ruta, intentos)
safe_save_call ==
    /\ pc = "save"
    /\ guardado.pc = "idle"
    /\ \E n \in 1..MaxIntentos :
        guardado' = [GuardadoIdle EXCEPT !.pc = "attempt", !.intentos = n,
                                         !.target = guardado.target, !.pre = guardado.target]
    /\ UNCHANGED fueraDeGuardado

\* "for i in range(intentos)": atomic_save_workbook is called (207); mkstemp
\* creates the empty temporary file (186) or raises
mkstemp ==
    /\ pc = "save"
    /\ guardado.pc = "attempt"
    /\ \/ guardado' = [guardado EXCEPT !.pc = "save", !.attempts = @ + 1, !.fallo = "none",
                                       !.pre = guardado.target, !.tmp = "empty"]
       \/ guardado' = [guardado EXCEPT !.pc = "except", !.attempts = @ + 1, !.fallo = "mkstemp",
                                       !.pre = guardado.target]
    /\ UNCHANGED fueraDeGuardado

\* workbook.save starts writing
workbook_save_begin ==
    /\ pc = "save"
    /\ guardado.pc = "save"
    /\ guardado' = IF save_path = "tmp"
                   THEN [guardado EXCEPT !.pc = "saving", !.tmp = "partial"]
                   ELSE [guardado EXCEPT !.pc = "saving", !.target = "partial"]
    /\ UNCHANGED fueraDeGuardado

\* workbook.save finishes, or raises in the middle
workbook_save_end ==
    /\ pc = "save"
    /\ guardado.pc = "saving"
    /\ \/ guardado' = IF save_path = "tmp"
                      THEN [guardado EXCEPT !.pc = "replace", !.tmp = "full"]
                      ELSE [guardado EXCEPT !.pc = "replace", !.target = "new"]
       \/ guardado' = [guardado EXCEPT !.pc = "finally", !.fallo = "save"]
    /\ UNCHANGED fueraDeGuardado

\* os.replace(tmp, ruta) (190): one atomic rename, or an exception that
\* leaves both files as they are
os_replace ==
    /\ pc = "save"
    /\ guardado.pc = "replace"
    /\ \/ guardado' = [guardado EXCEPT !.pc = "finally", !.tmp = "absent",
                                       !.target = IF guardado.tmp = "full" THEN "new"
                                                  ELSE guardado.tmp]
       \/ guardado' = [guardado EXCEPT !.pc = "finally", !.fallo = "replace"]
    /\ UNCHANGED fueraDeGuardado

\* finally: the temporary file is removed if it exists (192-197); then
\* atomic_save_workbook returns (191, and safe_save_workbook returns at 207)
\* or its exception reaches "except Exception as e" (208)
finally_remove ==
    /\ pc = "save"
    /\ guardado.pc = "finally"
    /\ guardado' = [guardado EXCEPT !.tmp = "absent",
                                    !.exitos = IF guardado.fallo = "none" THEN @ + 1 ELSE @,
                                    !.pc = IF guardado.fallo = "none" THEN "returned" ELSE "except"]
    /\ UNCHANGED fueraDeGuardado

\* except Exception as e: last_exc = e; sleep if attempts remain, else raise e (208-213)
except_handler ==
    /\ pc = "save"
    /\ guardado.pc = "except"
    /\ guardado' = IF EsperaTrasFallo(guardado.i, guardado.intentos)
                   THEN [guardado EXCEPT !.last_exc = guardado.attempts, !.pc = "sleep"]
                   ELSE [guardado EXCEPT !.last_exc = guardado.attempts,
                                         !.raised_exc = guardado.attempts, !.pc = "raised"]
    /\ UNCHANGED fueraDeGuardado

\* time.sleep(espera_s) ends and the loop goes on; after the loop the last
\* exception is raised (214-215)
time_sleep ==
    /\ pc = "save"
    /\ guardado.pc = "sleep"
    /\ guardado' = IF guardado.i + 1 < guardado.intentos
                   THEN [guardado EXCEPT !.sleeps = @ + 1, !.i = @ + 1, !.pc = "attempt"]
                   ELSE [guardado EXCEPT !.sleeps = @ + 1, !.i = @ + 1,
                                         !.raised_exc = guardado.last_exc, !.pc = "raised"]
    /\ UNCHANGED fueraDeGuardado

\* the call is over; the workbook file is what the next save finds
save_over ==
    /\ pc = "save"
    /\ guardado.pc \in {"returned", "raised"}
    /\ guardado' = [GuardadoIdle EXCEPT !.target = IF guardado.target = "new" THEN "old"
                                                   ELSE guardado.target]
    /\ UNCHANGED fueraDeGuardado

InitSave ==
    /\ wb = NoWb
    /\ archivo_excel = ""
    /\ disk = NoDisk
    /\ walFile = NoFile
    /\ markFile = FALSE
    /\ hashseed \in Seeds
    /\ startupOps = <<>>
    /\ last = NoCall
    /\ brut = <<>>
    /\ lista = <<>>
    /\ captura_lock = {}
    /\ hilos = HilosInit
    /\ pc = "save"
    /\ guardado = GuardadoIdle
    /\ HorarioInicial

NextSave ==
    \/ safe_save_call
    \/ mkstemp
    \/ workbook_save_begin
    \/ workbook_save_end
    \/ os_replace
    \/ finally_remove
    \/ except_handler
    \/ time_sleep
    \/ save_over

SpecSave == InitSave /\ [][NextSave]_vars

\* every statement of the call is executed in the end: the file operations
\* return or raise, the sleep is finite
SpecSaveFair == SpecSave /\ WF_vars(NextSave)

\* safe_save_workbook(workbook, ruta, intentos) with intentos <= 0:
\* "for i in range(intentos)" has no iteration, last_exc is None (214) and
\* the call returns ruta (216)
safe_save_call_sin_vueltas ==
    /\ pc = "save"
    /\ guardado.pc = "idle"
    /\ \E n \in (0 - MaxIntentos)..0 :
        guardado' = [GuardadoIdle EXCEPT !.pc = "returned", !.intentos = n,
                                         !.target = guardado.target, !.pre = guardado.target]
    /\ UNCHANGED fueraDeGuardado

NextSaveIntentos ==
    \/ NextSave
    \/ safe_save_call_sin_vueltas

\* the calls of safe_save_workbook with any integer as intentos
SpecSaveIntentos == InitSave /\ [][NextSaveIntentos]_vars

(***************************************************************************)
(* The schedule: the globals of config.py, the period buttons of the main  *)
(* window and the rounds of ciclo as far as the clock is concerned         *)
(***************************************************************************)
\* datetime.now(): the clock does not go back
Ahora == { m \in Momentos : m >= ahora }

\* config.py has been imported with some config file, or none
InitHorario ==
    /\ wb = NoWb
    /\ archivo_excel = ""
    /\ disk = NoDisk
    /\ walFile = NoFile
    /\ markFile = FALSE
    /\ hashseed \in Seeds
    /\ startupOps = <<>>
    /\ last = NoCall
    /\ brut = <<>>
    /\ lista = <<>>
    /\ captura_lock = {}
    /\ hilos = HilosInit
    /\ guardado = GuardadoIdle
    /\ pc = "horario"
    /\ \E cfg \in CfgFiles : config = ConfigBoot(cfg)
    /\ ahora \in Momentos
    /\ siguiente_captura = NoneDt

\* apply_ui_result(result); p is <<>> when result has no "periodicidad_min"
\* (as in gui.py 202-206) and <<n>> when it has
apply_ui_result ==
    /\ pc = "horario"
    /\ \E m \in BOOLEAN, hi \in Horas, hf \in Horas,
          p \in {<<>>} \cup { <<n>> : n \in Minutos } :
        /\ config' = [modo_247 |-> m, hora_ini |-> hi, hora_fin |-> hf,
                      intervalo_captura |->
                          PeriodoMinimo(IF p = <<>> THEN config.intervalo_captura \div 60
                                        ELSE p[1]) * 60]
        /\ last' = [NoCall EXCEPT !.op = "apply_ui_result",
                                  !.arg = IF p = <<>> THEN 0 ELSE p[1]]
    /\ UNCHANGED <<wb, archivo_excel, disk, walFile, markFile, hashseed, pc, startupOps,
                   ahora, siguiente_captura>>
    /\ UNCHANGED <<detectorVars, hilosVars, guardadoVars>>

\* set_runtime_period_minutes(mins)
set_runtime_period_minutes ==
    /\ pc = "horario"
    /\ \E mins \in Minutos :
        /\ config' = [config EXCEPT !.intervalo_captura = PeriodoMinimo(mins) * 60]
        /\ last' = [NoCall EXCEPT !.op = "set_runtime_period_minutes", !.arg = mins]
    /\ UNCHANGED <<wb, archivo_excel, disk, walFile, markFile, hashseed, pc, startupOps,
                   ahora, siguiente_captura>>
    /\ UNCHANGED <<detectorVars, hilosVars, guardadoVars>>

\* _aplicar_per_live(): one of the period buttons 10, 15, 30, 60 is pressed
_aplicar_per_live ==
    /\ pc = "horario"
    /\ \E mins \in {10, 15, 30, 60}, now \in Ahora :
        LET c == [config EXCEPT !.intervalo_captura =
                                    PeriodoMinimo(PeriodoMinimo(mins)) * 60]
        IN  /\ config' = c
            /\ ahora' = now
            /\ siguiente_captura' =
                   IF esta_dentro_horario(c, now)
                   THEN <<alinear_a_intervalo(now, get_runtime_period_seconds(c))>>
                   ELSE siguiente_captura
            /\ last' = [NoCall EXCEPT !.op = "_aplicar_per_live", !.arg = mins]
    /\ UNCHANGED <<wb, archivo_excel, disk, walFile, markFile, hashseed, pc, startupOps>>
    /\ UNCHANGED <<detectorVars, hilosVars, guardadoVars>>

\* one round of ciclo() (739-769) as to the clock: outside the window the next
\* capture is set to the next start; inside, a capture that is due is run
\* (the capture itself is captura_en_hilo) and the next one is set
ciclo_ronda ==
    /\ pc = "horario"
    /\ \E now \in Ahora :
        /\ ahora' = now
        /\ IF ~esta_dentro_horario(config, now)
           THEN /\ siguiente_captura' =
                       <<alinear_a_intervalo(proximo_inicio_desde(config, now),
                                             get_runtime_period_seconds(config))>>
                /\ last' = [NoCall EXCEPT !.op = "ciclo"]
           ELSE LET sig == IF siguiente_captura = NoneDt
                           THEN alinear_a_intervalo(now, get_runtime_period_seconds(config))
                           ELSE siguiente_captura[1]
                IN  IF now >= sig
                    THEN /\ siguiente_captura' = <<now + get_runtime_period_seconds(config)>>
                         /\ last' = [NoCall EXCEPT !.op = "_captura_ejecucion"]
                    ELSE /\ siguiente_captura' = <<sig>>
                         /\ last' = [NoCall EXCEPT !.op = "ciclo"]
    /\ UNCHANGED <<wb, archivo_excel, disk, walFile, markFile, hashseed, pc, startupOps, config>>
    /\ UNCHANGED <<detectorVars, hilosVars, guardadoVars>>

NextHorario ==
    \/ apply_ui_result
    \/ set_runtime_period_minutes
    \/ _aplicar_per_live
    \/ ciclo_ronda

SpecHorario == InitHorario /\ [][NextHorario]_vars

(***************************************************************************)
(* Properties                                                              *)
(***************************************************************************)
\* the record t is a data row of some sheet
RowOn(sheets, t) ==
    \E k \in 1..Len(sheets) : \E j \in 1..Len(sheets[k].rows) :
        sheets[k].rows[j] = DataRow(Strip(t.nombre), t.tiempo_seg)

\* ws.append accepts the record's row
Legal(t) == ~HasIllegal(Strip(t.nombre))

RECURSIVE CountLegal(_)
CountLegal(tramos) ==
    IF tramos = <<>> THEN 0
    ELSE (IF Legal(Head(tramos)) THEN 1 ELSE 0) + CountLegal(Tail(tramos))

\* recover_from_wal was the last operation and found, for the registered
\* path, a WAL file with records and no commit marker
ReplayCase ==
    /\ last.op = "recover_from_wal"
    /\ archivo_excel # ""
    /\ ~last.preWb.none
    /\ last.preWal.exists
    /\ last.preWal.lines # <<>>
    /\ ~last.preMark

\* recover_from_wal was the last operation and found, for the registered
\* path, both the WAL file and the commit marker
CommittedCase ==
    /\ last.op = "recover_from_wal"
    /\ archivo_excel # ""
    /\ last.preWal.exists
    /\ last.preMark

\* C1: after recover_from_wal has found a WAL with records (each one a row a
\* sheet accepts) and no marker, the workbook in memory and the workbook file
\* are those an uninterrupted guardar_tramos of the logged batch (with a save
\* that succeeds) leaves.
C1_CrashReplayEqualsPersist ==
    (ReplayCase /\ \A k \in 1..Len(last.preWal.lines) : Legal(JsonLoads(last.preWal.lines[k]))) =>
        LET before == [Cur EXCEPT !.wb = last.preWb, !.disk = last.preDisk]
            g == GuardarResult(before, ReadWal(last.preWal.lines), 0).state
        IN  wb = g.wb /\ disk = g.disk

\* C2: whenever guardar_tramos has appended rows of a batch, the WAL file
\* held all records of that batch when the first row was appended.
C2_WalWrittenBeforeAppend ==
    (last.op = "guardar_tramos" /\ last.ret[1] > 0) => last.logged

\* C3: when recover_from_wal has removed a WAL that held records and had no
\* marker, every record of it (that a sheet accepts) is a row of the saved
\* workbook file.
C3_WalClearedOnlyAfterDurable ==
    (ReplayCase /\ ~walFile.exists) =>
        \A k \in 1..Len(last.preWal.lines) :
            LET t == JsonLoads(last.preWal.lines[k])
            IN  Legal(t) => (disk.exists /\ RowOn(disk.sheets, t))

\* C4: when guardar_tramos ends after a save that failed on every retry, the
\* WAL file of its batch is present and the commit marker is absent.
C4_FailedSaveLeavesWal ==
    (last.op = "guardar_tramos" /\ last.save = "failed") =>
        (walFile.exists /\ ReadWal(walFile.lines) = last.batch /\ ~markFile)

\* C5: when safe_save_workbook has exhausted its retries inside
\* guardar_tramos, guardar_tramos raises instead of returning its counts.
C5_StorageFailureSurfaced ==
    (last.op = "guardar_tramos" /\ last.save = "failed") => last.raised

\* C6: once guardar_tramos has returned, every record of the batch that a
\* sheet accepts is a row of the saved workbook file, or is held in a WAL
\* without marker, or the caller was told: an exception, or a count of saved
\* records smaller than the number of such records handed over.
C6_NoSilentLoss ==
    (last.op = "guardar_tramos") =>
        \A k \in 1..Len(last.batch) :
            LET t == last.batch[k]
            IN  Legal(t) =>
                \/ disk.exists /\ RowOn(disk.sheets, t)
                \/ /\ walFile.exists
                   /\ ~markFile
                   /\ \E j \in 1..Len(walFile.lines) : JsonLoads(walFile.lines[j]) = t
                \/ last.raised
                \/ last.ret[1] < CountLegal(last.batch)

\* C7: recover_from_wal with both the WAL file and the commit marker present
\* leaves the workbook in memory and the workbook file as they were, raises
\* nothing, and deletes both the WAL file and the marker.
C7_CommittedWalOnlyCleared ==
    CommittedCase =>
        /\ wb = last.preWb
        /\ disk = last.preDisk
        /\ ~last.raised
        /\ ~walFile.exists
        /\ ~markFile

\* recover_from_wal has met a WAL with records and the marker, the records
\* being rows of the workbook file already
C7_Witness ==
    /\ CommittedCase
    /\ last.preWal.lines # <<>>
    /\ \A k \in 1..Len(last.preWal.lines) :
           disk.exists /\ RowOn(disk.sheets, JsonLoads(last.preWal.lines[k]))
    /\ ~walFile.exists

C9_RecoveryAtStartup ==
    (pc = "running" /\ last.op = "guardar_tramos") =>
        /\ Cardinality({k \in 1..Len(startupOps) : startupOps[k] = "recover_from_wal"}) = 1
        /\ \E j \in 1..Len(startupOps), k \in 1..Len(startupOps) :
               j < k /\ startupOps[j] = "_bootstrap_startup"
                     /\ startupOps[k] = "recover_from_wal"

\* "Tráfico inusual" first, "Desconocidos" last if present, the titles between
\* them in non-decreasing order of their lower-case forms
Ordered(sheets) ==
    LET t == sheetnames(sheets)
        n == Len(t)
        m == IF HasSheet(sheets, desc_name) THEN n - 1 ELSE n
    IN  /\ n >= 1
        /\ t[1] = inus_name
        /\ HasSheet(sheets, desc_name) => t[n] = desc_name
        /\ \A k \in 2..m : t[k] \notin {inus_name, desc_name}
        /\ \A k \in 2..(m - 1) : ~StrLess(Lower(t[k + 1]), Lower(t[k]))

\* C10: after every guardar_tramos call on a registered workbook the sheet
\* list is: "Tráfico inusual", the other sheets sorted case-insensitively by
\* title, then "Desconocidos" if it exists; the file a successful save wrote
\* has the same order.
C10_SheetOrder ==
    (last.op = "guardar_tramos" /\ ~wb.none /\ archivo_excel # "") =>
        /\ Ordered(wb.sheets)
        /\ (last.save = "ok" => Ordered(disk.sheets))

\* guardar_tramos has just run on a workbook with "Desconocidos" and with two
\* per-segment sheets that a case-sensitive sort would put the other way round
C10_Witness ==
    /\ last.op = "guardar_tramos"
    /\ archivo_excel # ""
    /\ last.ret[2] > 0
    /\ HasSheet(wb.sheets, desc_name)
    /\ \E j \in 1..Len(wb.sheets), k \in 1..Len(wb.sheets) :
           j < k /\ StrLess(wb.sheets[k].title, wb.sheets[j].title)
                 /\ {wb.sheets[j].title, wb.sheets[k].title} \cap {inus_name, desc_name} = {}

\* the names of the data rows of a sheet
NamesOn(ws) == { ws.rows[j].nombre : j \in { j \in 1..Len(ws.rows) : ws.rows[j].kind = "data" } }

\* the positions of the per-segment sheets
WatchSheets(sheets) == { k \in 1..Len(sheets) : sheets[k].title \notin {inus_name, desc_name} }

\* guardar_tramos was the last operation and ran on a registered workbook
GuardarCase ==
    /\ last.op = "guardar_tramos"
    /\ ~wb.none
    /\ archivo_excel # ""

\* C11: after every guardar_tramos call on a registered workbook, in whatever
\* process run the earlier calls were made, the rows of one segment name are
\* in one per-segment sheet, a per-segment sheet holds rows of one name only,
\* there is exactly one "Tráfico inusual" and at most one "Desconocidos".
C11_OneSheetPerName ==
    GuardarCase =>
        /\ \A j \in WatchSheets(wb.sheets), k \in WatchSheets(wb.sheets) :
               (NamesOn(wb.sheets[j]) \cap NamesOn(wb.sheets[k]) # {}) => j = k
        /\ \A k \in WatchSheets(wb.sheets) : Cardinality(NamesOn(wb.sheets[k])) <= 1
        /\ Cardinality({ k \in 1..Len(wb.sheets) : wb.sheets[k].title = inus_name }) = 1
        /\ Cardinality({ k \in 1..Len(wb.sheets) : wb.sheets[k].title = desc_name }) <= 1

\* the name is a sheet title Excel accepts as it is: not empty, at most 31
\* characters, none of : \ / * ? [ ]
TitleLegal(n) ==
    /\ n # <<>>
    /\ Len(n) <= TitleMax
    /\ \A k \in 1..Len(n) : n[k] \notin SheetForbidden

\* C12: after guardar_tramos, every Usual record of the batch whose name is a
\* legal sheet title is a row of the sheet whose title is exactly that name.
C12_LegalNameKeepsTitle ==
    GuardarCase =>
        \A k \in 1..Len(last.batch) :
            LET t == last.batch[k]
                n == Strip(t.nombre)
            IN  (t.es_usual = "True" /\ Legal(t) /\ TitleLegal(n)) =>
                    /\ HasSheet(wb.sheets, n)
                    /\ n \in NamesOn(wb.sheets[SheetIndex(wb.sheets, n)])

\* C13: the sheet title guardar_tramos has computed for a Usual record in the
\* running process is the title every process run computes for that name.
C13_SanitizerDeterministic ==
    GuardarCase =>
        \A k \in 1..Len(last.batch) :
            LET n == Strip(last.batch[k].nombre)
            IN  last.batch[k].es_usual = "True" =>
                    \A seed \in Seeds :
                        nombre_hoja_seguro(n, seed) = nombre_hoja_seguro(n, hashseed)

\* the identity triple of a raw record: (name, distance_raw, current_raw if
\* non-empty else historic_raw), on the stripped texts
TripleRaw(r) ==
    <<Strip(r.name), Strip(r.dist),
      IF Strip(r.current) # <<>> THEN Strip(r.current) ELSE Strip(r.historic)>>

\* the identity triple of a record of the returned list
TripleNorm(x) ==
    <<x.nombre, x.dist_raw, IF x.current_raw # <<>> THEN x.current_raw ELSE x.historic_raw>>

\* the positions of brut that hold the triple
Occurrences(triple) == { k \in 1..Len(brut) : TripleRaw(brut[k]) = triple }

\* the first position of brut that holds the triple
FirstOccurrence(triple) ==
    CHOOSE k \in Occurrences(triple) : \A j \in Occurrences(triple) : k <= j

\* the category the hint stands for
CategoryOf(hint) ==
    IF hint = unusual_flag THEN "False" ELSE IF hint = watch_flag THEN "True" ELSE "None"

InFlight == { t \in Hilos : hilos[t].pc \in {"holding", "captured"} }

\* C16: at most one thread is inside the capture-and-persist transaction
\* (_captura_ejecucion under captura_lock), and that thread holds the lock.
C16_OneCaptureAtATime ==
    /\ Cardinality(InFlight) <= 1
    /\ InFlight = captura_lock

\* a thread has finished guardar_tramos inside the lock while another thread
\* is blocked in "with captura_lock"
C16_Witness ==
    /\ last.op = "guardar_tramos"
    /\ \E t \in Hilos, u \in Hilos :
           hilos[t].pc = "captured" /\ hilos[u].pc = "waiting"

\* C17: no thread that blocked in "with captura_lock" while a capture was in
\* flight goes on to run its own capture once the lock is released.
C17_RejectedNotQueued ==
    \A t \in Hilos : hilos[t].pc \in {"holding", "captured"} => ~hilos[t].queued

\* C18: once the capture loop runs, every step that changes the workbook in
\* memory, the workbook file or the WAL files is the guardar_tramos of the
\* thread that holds captura_lock.
C18_OnlyLockHolderWrites ==
    [][ (pc = "running" /\ <<wb, disk, walFile, markFile>>' # <<wb, disk, walFile, markFile>>) =>
            \E t \in Hilos :
                /\ captura_lock = {t}
                /\ hilos[t].pc = "holding"
                /\ hilos'[t].pc = "captured" ]_vars

\* detener has run while a capture was in flight whose save had failed, so
\* that the workbook in memory holds rows the file does not
C18_Witness ==
    /\ pc = "stopped"
    /\ ~wb.none
    /\ archivo_excel # ""
    /\ \E t \in Hilos : hilos[t].pc = "captured"
    /\ DataRows(wb.sheets) > DataRows(disk.sheets)

C20_Counters ==
    (pc = "save") =>
        /\ guardado.attempts <= guardado.intentos
        /\ guardado.exitos <= 1
        /\ (guardado.exitos = 1) => (guardado.pc = "returned")
        /\ guardado.sleeps <= guardado.attempts
        /\ (guardado.attempts > 0 /\ guardado.sleeps = guardado.attempts) =>
               (guardado.pc = "attempt" /\ guardado.attempts < guardado.intentos)
        /\ (guardado.pc \in {"returned", "raised"}) => (guardado.sleeps = guardado.attempts - 1)
        /\ (guardado.pc = "raised") =>
               /\ guardado.attempts = guardado.intentos
               /\ guardado.exitos = 0
               /\ guardado.raised_exc = guardado.intentos

\* C20: safe_save_workbook makes at most intentos attempts, makes none after
\* one that succeeded, sleeps once after every failed attempt but the last
\* one (every sleep is followed by another attempt), raises only after
\* intentos failed attempts and then the exception of the last one; and every
\* call ends, by returning or by raising.
C20_BoundedRetry ==
    /\ []C20_Counters
    /\ (guardado.pc = "attempt") ~> (guardado.pc \in {"returned", "raised"})

\* safe_save_workbook has raised after more than one attempt
C20_Witness ==
    /\ pc = "save"
    /\ guardado.pc = "raised"
    /\ guardado.intentos >= 2
    /\ guardado.sleeps >= 1

\* a is a prefix of b
IsPrefix(a, b) == Len(a) <= Len(b) /\ SubSeq(b, 1, Len(a)) = a

\* the step is a call of guardar_tramos on a registered workbook
GuardarStepCase ==
    /\ last'.op = "guardar_tramos"
    /\ <<wb, disk, last>>' # <<wb, disk, last>>
    /\ ~wb.none
    /\ archivo_excel # ""

\* C21: in every guardar_tramos call on a registered workbook, every sheet of
\* the workbook is still a sheet afterwards and its rows are a prefix of its
\* rows afterwards; the workbook gains as many rows as the call reports saved.
C21_AppendOnly ==
    [][ GuardarStepCase =>
            /\ \A k \in 1..Len(wb.sheets) :
                   /\ HasSheet(wb'.sheets, wb.sheets[k].title)
                   /\ IsPrefix(wb.sheets[k].rows,
                               wb'.sheets[SheetIndex(wb'.sheets, wb.sheets[k].title)].rows)
            /\ DataRows(wb'.sheets) = DataRows(wb.sheets) + last'.ret[1] ]_vars

\* the same record has been persisted twice, the second time on a workbook
\* that has "Desconocidos": its sheet holds the row twice
C21_Witness ==
    /\ GuardarCase
    /\ HasSheet(wb.sheets, desc_name)
    /\ \E k \in 1..Len(wb.sheets) : \E i \in 1..Len(wb.sheets[k].rows), j \in 1..Len(wb.sheets[k].rows) :
           /\ i < j
           /\ wb.sheets[k].rows[i].kind = "data"
           /\ wb.sheets[k].rows[i] = wb.sheets[k].rows[j]

\* the sheet guardar_tramos sends a record to
Destino(t) ==
    IF t.es_usual = "True" THEN nombre_hoja_seguro(Strip(t.nombre), hashseed)
    ELSE IF t.es_usual = "False" THEN inus_name
    ELSE desc_name

\* the data rows of the sheet with the title, 0 when there is no such sheet
DataRowsOf(sheets, title) ==
    IF HasSheet(sheets, title) THEN CountData(sheets[SheetIndex(sheets, title)].rows) ELSE 0

\* C22: in every guardar_tramos call on a registered workbook, each sheet
\* gains one row for each record of the batch (whose row the sheet accepts)
\* that has the sheet as its destination: "Tráfico inusual" for Unusual, the
\* per-name sheet for Usual, "Desconocidos" for Unknown; a per-name sheet
\* created by the call holds rows of the one name only; and "Desconocidos"
\* appears only with an Unknown record.
C22_RoutingByCategory ==
    [][ GuardarStepCase =>
            LET batch == last'.batch
                titles == { wb'.sheets[k].title : k \in 1..Len(wb'.sheets) }
            IN  /\ \A k \in 1..Len(batch) : Legal(batch[k]) => Destino(batch[k]) \in titles
                /\ \A title \in titles :
                       DataRowsOf(wb'.sheets, title) - DataRowsOf(wb.sheets, title) =
                           Cardinality({ k \in 1..Len(batch) :
                                           Legal(batch[k]) /\ Destino(batch[k]) = title })
                /\ \A k \in 1..Len(batch) :
                       (batch[k].es_usual = "True" /\ Legal(batch[k])
                            /\ ~HasSheet(wb.sheets, Destino(batch[k]))) =>
                           NamesOn(wb'.sheets[SheetIndex(wb'.sheets, Destino(batch[k]))])
                               = { Strip(batch[k].nombre) }
                /\ (HasSheet(wb'.sheets, desc_name) /\ ~HasSheet(wb.sheets, desc_name)) =>
                       \E k \in 1..Len(batch) : batch[k].es_usual = "None" ]_vars

\* one call has persisted a Usual and an Unknown record, creating both sheets
C22_Witness ==
    /\ GuardarCase
    /\ Len(last.batch) = 2
    /\ last.ret = <<2, 1, 0>>
    /\ HasSheet(wb.sheets, desc_name)
    /\ DataRows(wb.sheets) = 2

\* C23: after guardar_tramos on a registered workbook, every record of the
\* batch whose row a sheet accepts is a row of the workbook, also when a
\* record before or after it was skipped; the first count returned is the
\* number of those records; the sheets are in order and the save was made.
C23_RowFailureIsolated ==
    GuardarCase =>
        /\ \A k \in 1..Len(last.batch) : Legal(last.batch[k]) => RowOn(wb.sheets, last.batch[k])
        /\ last.ret[1] = CountLegal(last.batch)
        /\ last.ret[2] = Cardinality({ k \in 1..Len(last.batch) :
                              Legal(last.batch[k]) /\ last.batch[k].es_usual = "True" })
        /\ last.ret[3] = Cardinality({ k \in 1..Len(last.batch) :
                              Legal(last.batch[k]) /\ last.batch[k].es_usual = "False" })
        /\ Ordered(wb.sheets)
        /\ last.save \in {"ok", "failed"}
        /\ (last.save = "ok") => (disk.exists /\ disk.sheets = wb.sheets)

\* a batch whose first record was skipped and whose second was appended and saved
C23_Witness ==
    /\ GuardarCase
    /\ Len(last.batch) = 2
    /\ ~Legal(last.batch[1])
    /\ Legal(last.batch[2])
    /\ last.ret[1] = 1
    /\ last.save = "ok"
    /\ RowOn(disk.sheets, last.batch[2])

\* analyzer.capture_and_save: guardados = usuales + inusuales
capture_and_save(tramos) ==
    LET usuales == Cardinality({ k \in 1..Len(tramos) : tramos[k].es_usual = "True" })
        inusuales == Cardinality({ k \in 1..Len(tramos) : tramos[k].es_usual = "False" })
    IN  <<usuales + inusuales, usuales, inusuales>>

\* C28: for a batch whose rows are all accepted, guardar_tramos returns a
\* total equal to its Usual count plus its Unusual count, the triple
\* capture_and_save computes for the batch.
C28_UnknownNotCounted ==
    (GuardarCase /\ \A k \in 1..Len(last.batch) : Legal(last.batch[k])) =>
        /\ last.ret[1] = last.ret[2] + last.ret[3]
        /\ last.ret = capture_and_save(last.batch)

TitleSafe(title) ==
    /\ Len(title) <= 31
    /\ \A k \in 1..Len(title) : title[k] \notin {58, 92, 47, 42, 63, 91, 93}

\* C30: the title nombre_hoja_seguro gives to the name of every Usual record
\* of a persisted batch is a sheet of the workbook, is at most 31 characters
\* long and has none of the characters : \ / * ? [ ]; so is every sheet title
\* of the workbook.
C30_TitleSafeBounded ==
    /\ \A k \in 1..Len(wb.sheets) : TitleSafe(wb.sheets[k].title)
    /\ GuardarCase =>
           \A k \in 1..Len(last.batch) :
               last.batch[k].es_usual = "True" =>
                   LET hoja == nombre_hoja_seguro(Strip(last.batch[k].nombre), hashseed)
                   IN  HasSheet(wb.sheets, hoja) /\ TitleSafe(hoja)

\* sheets were created for the name of 32 "/" (a title of 27 spaces and the
\* suffix: 31 characters) and for the empty name (a title of the suffix only)
C30_Witness ==
    /\ GuardarCase
    /\ last.batch[1].nombre = Nombre.LargoBarras
    /\ \E k \in 1..Len(wb.sheets) :
           /\ Len(wb.sheets[k].title) = 31
           /\ SubSeq(wb.sheets[k].title, 1, 27) = [i \in 1..27 |-> 32]
           /\ NamesOn(wb.sheets[k]) = { Nombre.LargoBarras }
    /\ \E k \in 1..Len(wb.sheets) :
           /\ Len(wb.sheets[k].title) = 4
           /\ NamesOn(wb.sheets[k]) = { Nombre.Vacio }

\* what re.search and int/float give on the texts of one capture: the minutes
\* of the first "<N> min" or "<N> minutos", the speed of the first
\* "<x> km/h" or "<x> kmh", the distance of the first "<x> km"; unset when
\* there is none or when <x> is no decimal number
MinEsperado(t) ==
    CASE t = Texto.Min12 -> Num(12, 1)
      [] t = Texto.MinutosVel30 -> Num(9, 1)
      [] t = Texto.DosMin -> Num(3, 1)
      [] OTHER -> Unset

VelEsperada(t) ==
    CASE t = Texto.MinutosVel30 -> Num(30, 1)
      [] t = Texto.Vel8 -> Num(8, 1)
      [] t = Texto.Vel7 -> Num(7, 1)
      [] t = Texto.Minutes0 -> Num(0, 1)
      [] t = Texto.DosMin -> Num(225, 10)
      [] OTHER -> Unset

DistEsperada(t) ==
    CASE t = Distancia.Km45 -> Num(45, 10)
      [] t = Distancia.Km10 -> Num(10, 1)
      [] t = Distancia.Km025 -> Num(25, 100)
      [] OTHER -> Unset

\* the raw record the k-th record of the returned list was built from
RawOf(k) == brut[FirstOccurrence(TripleNorm(lista[k]))]

\* the record has neither minutes, nor speed, nor distance, nor a duration
SinMedidas(x) ==
    /\ x.tiempo_min = Unset
    /\ x.vel_kmh = Unset
    /\ x.dist_km = Unset
    /\ x.tiempo_seg = Unset
    /\ x.tiempo_mmss = <<>>

\* C24: detect_all does not raise, whatever the texts of the raw records are;
\* every raw record with a non-empty name has its record in the returned
\* list, whose speed and distance are unset when the text has no decimal
\* number (also when it matches the pattern) and whose duration is unset when
\* nothing gives one; guardar_tramos then writes one row for each record of
\* the list, with an empty duration cell for an unset duration.
C24_NormalizerNeverRaises ==
    /\ (pc \in {"detected", "persisted"}) =>
           /\ \A i \in 1..Len(brut) :
                  Strip(brut[i].name) # <<>> =>
                      \E k \in 1..Len(lista) : TripleNorm(lista[k]) = TripleRaw(brut[i])
           /\ \A k \in 1..Len(lista) :
                  /\ VelEsperada(RawOf(k).current) = Unset /\ VelEsperada(RawOf(k).historic) = Unset
                         => lista[k].vel_kmh = Unset
                  /\ DistEsperada(RawOf(k).dist) = Unset => lista[k].dist_km = Unset
                  /\ (lista[k].tiempo_min = Unset /\ (lista[k].vel_kmh = Unset \/ lista[k].dist_km = Unset))
                         => (lista[k].tiempo_seg = Unset /\ lista[k].tiempo_mmss = <<>>)
                  /\ ~NormalizarLanza(lista[k])
    /\ (pc = "detected") => (last.op = "detect_all" /\ ~last.raised)
    /\ (pc = "persisted") =>
           /\ last.op = "guardar_tramos"
           /\ ~last.raised
           /\ last.ret[1] = Len(lista)
           /\ \A k \in 1..Len(lista) :
                  \E s \in 1..Len(wb.sheets) : \E j \in 1..Len(wb.sheets[s].rows) :
                      /\ wb.sheets[s].rows[j].kind = "data"
                      /\ wb.sheets[s].rows[j].nombre = lista[k].nombre
                      /\ wb.sheets[s].rows[j].seg =
                             (IF lista[k].tiempo_seg.some THEN lista[k].tiempo_seg.n ELSE -1)

\* a record whose speed text "1.2.3 km/h" and distance text ", km" match the
\* patterns without being numbers was emitted without measurements and its
\* row, with an empty duration cell, is in the saved file
C24_Witness ==
    /\ pc = "persisted"
    /\ brut[1].current = Texto.VelMala
    /\ brut[1].historic = Texto.SoloComa
    /\ brut[1].dist = Distancia.KmComa
    /\ Len(lista) = 1
    /\ SinMedidas(lista[1])
    /\ last.save = "ok"
    /\ \E s \in 1..Len(disk.sheets) : \E j \in 1..Len(disk.sheets[s].rows) :
           /\ disk.sheets[s].rows[j].kind = "data"
           /\ disk.sheets[s].rows[j].nombre = Nombre.NameA
           /\ disk.sheets[s].rows[j].seg = -1

\* s is n written in decimal digits, with at least two of them and no more
\* leading zeros than that needs
TwoDigitDecimal(s, n) ==
    /\ Len(s) >= 2
    /\ \A k \in 1..Len(s) : s[k] \in 48..57
    /\ DecVal(s) = n
    /\ (Len(s) > 2) => s[1] # 48

\* C25: every record of the returned list whose tiempo_min is known has
\* tiempo_seg = tiempo_min * 60 and tiempo_mmss = the minutes in at least two
\* digits followed by ":00", whatever distance and speed it has.
C25_DirectDuration ==
    (pc \in {"detected", "persisted"}) =>
        \A k \in 1..Len(lista) :
            lista[k].tiempo_min.some =>
                /\ lista[k].tiempo_seg = Num(lista[k].tiempo_min.n * 60, 1)
                /\ Len(lista[k].tiempo_mmss) >= 5
                /\ SubSeq(lista[k].tiempo_mmss, Len(lista[k].tiempo_mmss) - 2,
                          Len(lista[k].tiempo_mmss)) = <<58, 48, 48>>
                /\ TwoDigitDecimal(SubSeq(lista[k].tiempo_mmss, 1, Len(lista[k].tiempo_mmss) - 3),
                                   lista[k].tiempo_min.n)

\* 12 minutes were read while 10 km at 7 km/h would give 85:43: the record has "12:00"
C25_Witness ==
    /\ pc = "detected"
    /\ \E k \in 1..Len(lista) :
           /\ lista[k].tiempo_min = Num(12, 1)
           /\ lista[k].dist_km = Num(10, 1)
           /\ lista[k].vel_kmh = Num(7, 1)
           /\ lista[k].tiempo_seg = Num(720, 1)
           /\ lista[k].tiempo_mmss = <<49, 50, 58, 48, 48>>

\* C26: for every record of the returned list whose tiempo_min is unknown:
\* when dist_km and vel_kmh are known and vel_kmh > 0, tiempo_seg is an
\* integer nearest to dist_km / vel_kmh * 3600 and tiempo_mmss is
\* tiempo_seg div 60, ":", tiempo_seg mod 60 in two digits; otherwise
\* tiempo_seg is unset and tiempo_mmss is empty.
C26_DerivedDuration ==
    (pc \in {"detected", "persisted"}) =>
        \A k \in 1..Len(lista) :
            LET x == lista[k]
                m == x.tiempo_mmss
            IN  ~x.tiempo_min.some =>
                    IF x.dist_km.some /\ x.vel_kmh.some /\ x.vel_kmh.n > 0
                    THEN /\ x.tiempo_seg.some
                         /\ x.tiempo_seg.d = 1
                         /\ LET p == x.dist_km.n * x.vel_kmh.d * 3600
                                q == x.dist_km.d * x.vel_kmh.n
                                e == x.tiempo_seg.n * q - p
                            IN  2 * (IF e < 0 THEN -e ELSE e) <= q
                         /\ Len(m) >= 5
                         /\ m[Len(m) - 2] = 58
                         /\ TwoDigitDecimal(SubSeq(m, 1, Len(m) - 3), x.tiempo_seg.n \div 60)
                         /\ TwoDigitDecimal(SubSeq(m, Len(m) - 1, Len(m)), x.tiempo_seg.n % 60)
                    ELSE x.tiempo_seg = Unset /\ m = <<>>

\* 10 km at 7 km/h (5142.86 s) gave 5143 s and "85:43"; 0.25 km at 8 km/h
\* (112.5 s) would give "01:52"; here also a speed of 0 left the duration unset
C26_Witness ==
    /\ pc = "detected"
    /\ \E k \in 1..Len(lista) :
           /\ ~lista[k].tiempo_min.some
           /\ lista[k].dist_km = Num(10, 1)
           /\ lista[k].vel_kmh = Num(7, 1)
           /\ lista[k].tiempo_seg = Num(5143, 1)
           /\ lista[k].tiempo_mmss = <<56, 53, 58, 52, 51>>

\* C27: for every record of the returned list, tiempo_min is the minutes of
\* the current text when it has them, otherwise those of the historic text,
\* otherwise unset; vel_kmh is the speed of the current text when it has one,
\* otherwise that of the historic text, otherwise unset.
C27_CurrentOverHistoric ==
    (pc \in {"detected", "persisted"}) =>
        \A k \in 1..Len(lista) :
            LET r == RawOf(k)
            IN  /\ lista[k].tiempo_min =
                       (IF MinEsperado(Strip(r.current)) # Unset THEN MinEsperado(Strip(r.current))
                        ELSE MinEsperado(Strip(r.historic)))
                /\ lista[k].vel_kmh =
                       (IF VelEsperada(Strip(r.current)) # Unset THEN VelEsperada(Strip(r.current))
                        ELSE VelEsperada(Strip(r.historic)))

\* the current text "8 kmh" gave the speed and the historic text
\* "9 MINUTOS 30 km/h" the minutes
C27_Witness ==
    /\ pc = "detected"
    /\ brut[1].current = Texto.Vel8
    /\ brut[1].historic = Texto.MinutosVel30
    /\ lista[1].tiempo_min = Num(9, 1)
    /\ lista[1].vel_kmh = Num(8, 1)

\* C31: after every guardar_tramos call on a registered workbook whose sheets
\* were empty or had the header when it was loaded, every sheet of the
\* workbook has the header as its first row and only data rows below it.
C31_HeaderInvariant ==
    GuardarCase =>
        \A k \in 1..Len(wb.sheets) :
            /\ wb.sheets[k].rows # <<>>
            /\ wb.sheets[k].rows[1] = HeaderRow
            /\ \A j \in 2..Len(wb.sheets[k].rows) : wb.sheets[k].rows[j].kind = "data"

C33_ReservedSheetsNotShared ==
    [][ GuardarStepCase =>
            LET batch == last'.batch
                gained(title) == DataRowsOf(wb'.sheets, title) - DataRowsOf(wb.sheets, title)
                count(cat) == Cardinality({ k \in 1..Len(batch) :
                                              Legal(batch[k]) /\ batch[k].es_usual = cat })
            IN  /\ \A k \in 1..Len(batch) :
                       batch[k].es_usual = "True" =>
                           nombre_hoja_seguro(Strip(batch[k].nombre), hashseed)
                               \notin {inus_name, desc_name}
                /\ gained(inus_name) = count("False")
                /\ gained(desc_name) = count("None") ]_vars

\* a Usual record named "Desconocidos" and an Unknown record were persisted:
\* the first is on a sheet of its own, the second on "Desconocidos"
C33_Witness ==
    /\ GuardarCase
    /\ Len(wb.sheets) = 3
    /\ HasSheet(wb.sheets, desc_name)
    /\ NamesOn(wb.sheets[SheetIndex(wb.sheets, desc_name)]) = { inus_name }
    /\ \E k \in WatchSheets(wb.sheets) : NamesOn(wb.sheets[k]) = { desc_name }

\* C34: whenever two raw records differ in a component of their identity
\* triple (name, distance text, current-or-historic text), the list
\* detect_all returns holds a record for each of the two triples, also when
\* a component holds "||".
C34_DedupKeepsDistinctTriples ==
    (pc = "detected") =>
        \A i \in 1..Len(brut), j \in 1..Len(brut) :
            TripleRaw(brut[i]) # TripleRaw(brut[j]) =>
                /\ \E k \in 1..Len(lista) : TripleNorm(lista[k]) = TripleRaw(brut[i])
                /\ \E k \in 1..Len(lista) : TripleNorm(lista[k]) = TripleRaw(brut[j])

\* C35: when a call of safe_save_workbook has returned normally, whatever
\* its intentos, one of its attempts succeeded and the workbook file holds
\* the workbook that was to be saved.
C35_ReturnMeansSaved ==
    (pc = "save" /\ guardado.pc = "returned") =>
        /\ guardado.exitos = 1
        /\ guardado.target = "new"

\* the step in which thread t leaves its "with captura_lock" block
SaleDelBloque(t) ==
    /\ hilos[t].pc = "captured"
    /\ hilos'[t].pc \in {"sleep", "done"}

C37_IntervalFloor ==
    /\ config.intervalo_captura % 60 = 0
    /\ config.intervalo_captura >= 600
    /\ get_runtime_period_seconds(config) = config.intervalo_captura
    /\ get_runtime_period_seconds(config) >= 600

\* set_runtime_period_minutes or apply_ui_result has been called with a
\* period below zero and the interval is 10 minutes
C37_Witness ==
    /\ last.op \in {"set_runtime_period_minutes", "apply_ui_result"}
    /\ last.arg < 0
    /\ config.intervalo_captura = 600

\* C38: for the configured window and the moment the clock shows,
\* proximo_inicio_desde returns a moment that is not before it and at which
\* esta_dentro_horario holds.
C38_NextStartInsideWindow ==
    (pc = "horario") =>
        LET r == proximo_inicio_desde(config, ahora)
        IN  /\ r >= ahora
            /\ esta_dentro_horario(config, r)

====
